---- MODULE Spec2Model ----
(***************************************************************************)
(* Signal detector of the alert manager (src/alert/alert_manager.py):      *)
(* process_kline_data and the detector steps it calls, cleanup_old_data    *)
(* and update_settings, over a per-symbol in-order candle stream.          *)
(* Timestamps are UTC milliseconds; ratios are kept in hundredths and the  *)
(* volume multiplier in tenths, so that the float comparisons of the code  *)
(* are exact integer comparisons here.                                     *)
(***************************************************************************)
EXTENDS Integers, Sequences, FiniteSets, TLC

VARIABLES
    now,                        \* the clock read by _get_current_timestamp_ms
    settings,                   \* AlertManager.settings (the keys the detectors read)
    alert_cooldowns,            \* dict: cooldown key -> last alert timestamp_ms
    consecutive_long_counters,  \* dict: symbol -> count
    preliminary_signals,        \* dict: symbol -> preliminary alert
    has_is_candle_closed,       \* whether time_manager offers is_candle_closed
    trading_pairs,              \* the symbols whose klines are streamed
    bucket,                     \* stream: index of each symbol's open candle
    closed,                     \* history: is_long of each priced candle the closed pipeline took
    alerts,                     \* the list the last process_kline_data returned
    sent,                       \* the alerts passed to _send_alert by that call, in order
    lastCall,                   \* the last operation and its inputs
    sink_up,                    \* which sinks accept a delivery (else the call raises)
    attempts,                   \* the deliveries _send_alert attempted in that call, in order
    running                     \* the process_kline_data runs the stream has in flight

vars == << now, settings, alert_cooldowns, consecutive_long_counters,
           preliminary_signals, has_is_candle_closed, trading_pairs, bucket,
           closed, alerts, sent, lastCall, sink_up, attempts, running >>

----------------------------------------------------------------------------
(* Bounds of the model *)

MaxCandles == 3      \* confirmed candles the stream delivers, over all symbols
NearMinutes == 2     \* minutes sampled after the start, besides one past the hour
RunThreshold == 2    \* CONSECUTIVE_LONG_COUNT in the .env file
CooldownMinutes == 2 \* ALERT_GROUPING_MINUTES in the .env file
MaxInFlight == 3     \* process_kline_data runs in flight at once, over all symbols

(* Program constants *)

None == 0                  \* dict.get without a hit; falsy like a zero timestamp
MsPerMinute == 60000       \* 60 * 1000
CleanupHorizonMinutes == 60
ImbalanceWindow == 20
ImbalanceMinCandles == 15
PreliminaryMinSamples == 10
MinVolumeUsdt == 1000
VolumeMultiplierTenths == 20   \* VOLUME_MULTIPLIER 2.0

Symbols == {"BTCUSDT", "ETHUSDT"}

\* mutant: the key of the consecutive cooldown leaves out the symbol
ConsecutiveKeyShared(symbol) == "consecutive"

ConsecutiveKey(symbol) == symbol \o "_consecutive"

StartMs == CleanupHorizonMinutes * MsPerMinute

Minutes == (0..NearMinutes) \cup {CleanupHorizonMinutes + 1}

Instants == {StartMs + m * MsPerMinute : m \in Minutes}

----------------------------------------------------------------------------
(* Python dicts as functions whose domain is the set of keys present *)

EmptyDict == << >>

\* mutant: a key that is present keeps its value (dict.setdefault)
DictSetDefault(d, k, v) == [x \in (DOMAIN d) \cup {k} |-> IF x \in DOMAIN d THEN d[x] ELSE v]

DictPut(d, k, v) == [x \in (DOMAIN d) \cup {k} |-> IF x = k THEN v ELSE d[x]]

DictDel(d, k) == [x \in (DOMAIN d) \ {k} |-> d[x]]

DictGet(d, k, default) == IF k \in DOMAIN d THEN d[k] ELSE default

RECURSIVE SeqSum(_)
SeqSum(s) == IF s = << >> THEN 0 ELSE Head(s) + SeqSum(Tail(s))

----------------------------------------------------------------------------
(* Inputs: kline_data of the stream and the providers' answers *)

\* kline_data: start tags the candle (its time bucket); shape says which
\* fields float() can read: "ok" all, "no_price" not close/open,
\* "no_volume" not volume/high/low.
KlinesOf(start) ==
    {[confirm |-> c, shape |-> "ok", start |-> start,
      open |-> 100, close |-> 110, volume |-> v] : c \in BOOLEAN, v \in {5, 50}}
    \cup {[confirm |-> c, shape |-> "ok", start |-> start,
           open |-> 100, close |-> 90, volume |-> 50] : c \in BOOLEAN}
    \cup {[confirm |-> c, shape |-> "no_price", start |-> start,
           open |-> 0, close |-> 0, volume |-> 50] : c \in BOOLEAN}
    \cup {[confirm |-> c, shape |-> "no_volume", start |-> start,
           open |-> 100, close |-> 110, volume |-> 0] : c \in BOOLEAN}

Samples(n, v) == [i \in 1..n |-> v]

\* the quote volumes of the window get_historical_long_volumes selects
HistoricalVolumes ==
    {<< >>, Samples(PreliminaryMinSamples - 1, 1000),
     Samples(20, 1000), Samples(20, 5000)}

\* a window at both limits: just enough samples, and a mean that puts a
\* quote volume of 5500 exactly at the multiplier
BoundaryVolumes == {Samples(PreliminaryMinSamples, 2750)}

\* what the query of get_historical_long_volumes does: it raises, or gives rows
QueryFailed == [failed |-> TRUE, rows |-> << >>]

NoQuery == [failed |-> FALSE, rows |-> << >>]

HistoryAnswers ==
    {[failed |-> FALSE, rows |-> rows] : rows \in HistoricalVolumes}
    \cup {QueryFailed}

BoundaryAnswers ==
    HistoryAnswers \cup {[failed |-> FALSE, rows |-> rows] : rows \in BoundaryVolumes}

\* mutant: a failed query is answered from a window read earlier
HistoricalVolumesStale(answer) ==
    IF answer.failed THEN Samples(20, 1000) ELSE answer.rows

\* get_historical_long_volumes: the except branch returns []
get_historical_long_volumes(answer) ==
    IF answer.failed THEN << >> ELSE answer.rows

NoImbalance == "none"

\* analyze_all_imbalances raises
AnalyzerRaises == "raises"

\* kline_data rows of a symbol in start_time order: closed_rows closed candles
\* and, after them, the candle that is still open
StoredCandles(closed_rows) ==
    [i \in 1..(closed_rows + 1) |-> [timestamp |-> i, is_closed |-> i <= closed_rows]]

IsClosedRow(row) == row.is_closed

\* mutant: the query has no LIMIT
RecentCandlesUnlimited(stored, limit) == SelectSeq(stored, IsClosedRow)

\* get_recent_candles: WHERE is_closed ORDER BY start_time DESC LIMIT limit, reversed
get_recent_candles(stored, limit) ==
    LET rows == SelectSeq(stored, IsClosedRow)
    IN IF Len(rows) <= limit THEN rows
       ELSE SubSeq(rows, Len(rows) - limit + 1, Len(rows))

\* one _analyze_imbalance call: the rows stored for the symbol and what
\* analyze_all_imbalances makes of a candle list
ImbalanceOutcomes ==
    {[stored |-> StoredCandles(ImbalanceMinCandles - 1), result |-> "fair_value_gap"],
     [stored |-> StoredCandles(ImbalanceMinCandles), result |-> "order_block"],
     [stored |-> StoredCandles(ImbalanceWindow + 1), result |-> "fair_value_gap"],
     [stored |-> StoredCandles(ImbalanceWindow + 1), result |-> AnalyzerRaises]}

----------------------------------------------------------------------------
(* Alert records *)

NoAlert == [alert_type |-> "none"]

\* dict.update: the keys of other replace or extend those of d
DictUpdate(d, other) ==
    [k \in (DOMAIN d) \cup (DOMAIN other) |-> IF k \in DOMAIN other THEN other[k] ELSE d[k]]

\* the candle snapshot of an alert; the volume alerts add the key alert_level
CandleData(kline, with_level) ==
    IF with_level
    THEN [open |-> kline.open, close |-> kline.close, volume |-> kline.volume,
          alert_level |-> kline.close]
    ELSE [open |-> kline.open, close |-> kline.close, volume |-> kline.volume]

\* the keys every alert dict of the code has; detector steps fill the rest
AlertBase(type, symbol, kline, with_level) ==
    [alert_type |-> type, symbol |-> symbol, price |-> kline.close,
     timestamp |-> now, start |-> kline.start,
     is_true_signal |-> FALSE, consecutive_count |-> None,
     volume_ratio |-> None, current_volume_usdt |-> None,
     average_volume_usdt |-> None, preliminary_timestamp |-> None,
     has_imbalance |-> FALSE, imbalance_data |-> NoImbalance,
     candle_data |-> CandleData(kline, with_level)]

IsLong(kline) == kline.close > kline.open

QuoteVolume(kline) == kline.volume * kline.close

\* volume_ratio = current_volume_usdt / average_volume, in hundredths (round(_, 2))
RatioHundredths(quote_volume, historical_volumes) ==
    LET total == SeqSum(historical_volumes)
        n == Len(historical_volumes)
    IN IF total > 0
       THEN (2 * quote_volume * n * 100 + total) \div (2 * total)
       ELSE 0

\* volume_ratio >= volume_multiplier, the multiplier in tenths
RatioAtLeast(quote_volume, historical_volumes, multiplier_tenths) ==
    LET total == SeqSum(historical_volumes)
        n == Len(historical_volumes)
    IN IF total > 0
       THEN quote_volume * n * 10 >= multiplier_tenths * total
       ELSE 0 >= multiplier_tenths

AverageVolume(historical_volumes) ==
    SeqSum(historical_volumes) \div Len(historical_volumes)

----------------------------------------------------------------------------
(* Detector steps of AlertManager *)

_get_current_timestamp_ms == now

\* mutant: one preliminary signal per candle
CheckPreliminaryOncePerCandle(symbol, kline, historical_volumes) ==
    IF kline.shape # "ok" THEN NoAlert
    ELSE IF kline.close <= kline.open THEN NoAlert
    ELSE IF QuoteVolume(kline) < settings.min_volume_usdt THEN NoAlert
    ELSE IF Len(historical_volumes) < PreliminaryMinSamples THEN NoAlert
    ELSE IF ~RatioAtLeast(QuoteVolume(kline), historical_volumes,
                          settings.volume_multiplier) THEN NoAlert
    ELSE IF /\ symbol \in DOMAIN preliminary_signals
            /\ preliminary_signals[symbol].start = kline.start THEN NoAlert
    ELSE [AlertBase("preliminary_volume_spike", symbol, kline, TRUE) EXCEPT
            !.volume_ratio = RatioHundredths(QuoteVolume(kline), historical_volumes),
            !.current_volume_usdt = QuoteVolume(kline),
            !.average_volume_usdt = AverageVolume(historical_volumes)]

\* mutant: the ratio has to exceed the multiplier
CheckPreliminaryStrictRatio(symbol, kline, historical_volumes) ==
    IF kline.shape # "ok" THEN NoAlert
    ELSE IF kline.close <= kline.open THEN NoAlert
    ELSE IF QuoteVolume(kline) < settings.min_volume_usdt THEN NoAlert
    ELSE IF Len(historical_volumes) < PreliminaryMinSamples THEN NoAlert
    ELSE IF QuoteVolume(kline) * Len(historical_volumes) * 10
              <= settings.volume_multiplier * SeqSum(historical_volumes) THEN NoAlert
    ELSE [AlertBase("preliminary_volume_spike", symbol, kline, TRUE) EXCEPT
            !.volume_ratio = RatioHundredths(QuoteVolume(kline), historical_volumes),
            !.current_volume_usdt = QuoteVolume(kline),
            !.average_volume_usdt = AverageVolume(historical_volumes)]

_check_preliminary_volume_signal(symbol, kline, historical_volumes) ==
    IF kline.shape = "no_price" THEN NoAlert
    ELSE IF kline.close <= kline.open THEN NoAlert
    ELSE IF kline.shape = "no_volume" THEN NoAlert
    ELSE IF QuoteVolume(kline) < settings.min_volume_usdt THEN NoAlert
    ELSE IF Len(historical_volumes) < PreliminaryMinSamples THEN NoAlert
    ELSE IF ~RatioAtLeast(QuoteVolume(kline), historical_volumes,
                          settings.volume_multiplier) THEN NoAlert
    ELSE [AlertBase("preliminary_volume_spike", symbol, kline, TRUE) EXCEPT
            !.volume_ratio = RatioHundredths(QuoteVolume(kline), historical_volumes),
            !.current_volume_usdt = QuoteVolume(kline),
            !.average_volume_usdt = AverageVolume(historical_volumes)]

\* mutant: the confirmation is part of the volume detector and follows its toggle
CheckFinalWhenVolumeEnabled(signals, symbol, kline) ==
    IF symbol \notin DOMAIN signals THEN NoAlert
    ELSE IF kline.shape # "ok" THEN NoAlert
    ELSE IF ~settings.volume_alerts_enabled THEN NoAlert
    ELSE [AlertBase("final_volume_spike", symbol, kline, TRUE) EXCEPT
            !.volume_ratio = signals[symbol].volume_ratio,
            !.current_volume_usdt = signals[symbol].current_volume_usdt,
            !.average_volume_usdt = signals[symbol].average_volume_usdt,
            !.is_true_signal = IsLong(kline),
            !.preliminary_timestamp = signals[symbol].timestamp]

_check_final_volume_signal(signals, symbol, kline) ==
    IF symbol \notin DOMAIN signals THEN NoAlert
    ELSE IF kline.shape # "ok" THEN NoAlert
    ELSE [AlertBase("final_volume_spike", symbol, kline, TRUE) EXCEPT
            !.volume_ratio = signals[symbol].volume_ratio,
            !.current_volume_usdt = signals[symbol].current_volume_usdt,
            !.average_volume_usdt = signals[symbol].average_volume_usdt,
            !.is_true_signal = IsLong(kline),
            !.preliminary_timestamp = signals[symbol].timestamp]

\* mutant: a candle that is not long leaves the counter as it is
UpdateCounterNoReset(counters, symbol, kline) ==
    IF kline.shape = "no_price" THEN counters
    ELSE IF IsLong(kline)
         THEN DictPut(counters, symbol, DictGet(counters, symbol, 0) + 1)
         ELSE counters

\* mutant: a symbol without a counter counts from 1
UpdateCounterFromOne(counters, symbol, kline) ==
    IF kline.shape = "no_price" THEN counters
    ELSE IF IsLong(kline)
         THEN DictPut(counters, symbol, DictGet(counters, symbol, 1) + 1)
         ELSE DictDel(counters, symbol)

_update_consecutive_long_counter(counters, symbol, kline) ==
    IF kline.shape = "no_price" THEN counters
    ELSE IF IsLong(kline)
         THEN DictPut(counters, symbol, DictGet(counters, symbol, 0) + 1)
         ELSE DictDel(counters, symbol)

NotCalled == << >>

\* mutant: the analyzer is given whatever get_recent_candles returned
AnalyzerInputAnyLength(outcome) == get_recent_candles(outcome.stored, ImbalanceWindow)

\* the candle list _analyze_imbalance passes to analyze_all_imbalances
AnalyzerInput(outcome) ==
    LET candles == get_recent_candles(outcome.stored, ImbalanceWindow)
    IN IF Len(candles) < ImbalanceMinCandles THEN NotCalled ELSE candles

\* the except branch returns None
_analyze_imbalance(outcome) ==
    IF AnalyzerInput(outcome) = NotCalled THEN NoImbalance
    ELSE IF outcome.result = AnalyzerRaises THEN NoImbalance
    ELSE outcome.result

\* AlertValidators.validate_volume_alert: the checks of the volume detector,
\* in order, on the candle, the historical window and the last alert time
validate_volume_alert(symbol, kline, historical_volumes, last_alert_timestamp) ==
    LET direction_ok ==
            CASE settings.volume_type = "long" -> IsLong(kline)
              [] settings.volume_type = "short" -> ~IsLong(kline)
              [] OTHER -> TRUE
        cooldown_ok ==
            \/ last_alert_timestamp = None
            \/ now - last_alert_timestamp
                 >= settings.alert_grouping_minutes * MsPerMinute
        reason ==
            IF kline.shape # "ok" THEN "malformed"
            ELSE IF ~direction_ok THEN "direction"
            ELSE IF QuoteVolume(kline) < settings.min_volume_usdt THEN "min_volume"
            ELSE IF Len(historical_volumes) < PreliminaryMinSamples THEN "history"
            ELSE IF ~RatioAtLeast(QuoteVolume(kline), historical_volumes,
                                  settings.volume_multiplier) THEN "ratio"
            ELSE IF ~cooldown_ok THEN "cooldown"
            ELSE "ok"
    IN [valid |-> reason = "ok", reason |-> reason,
        volume_ratio |->
            IF reason = "ok"
            THEN RatioHundredths(QuoteVolume(kline), historical_volumes) ELSE None,
        current_volume_usdt |-> IF reason = "ok" THEN QuoteVolume(kline) ELSE None,
        average_volume_usdt |->
            IF reason = "ok" THEN AverageVolume(historical_volumes) ELSE None]

\* AlertValidators.validate_priority_alert
validate_priority_alert(has_volume, has_consecutive, recent_volume_alert) ==
    has_consecutive /\ (has_volume \/ recent_volume_alert)

\* each detector step returns its alert and the dicts as it leaves them

\* mutant: the validator is not given the last alert timestamp
CheckVolumeAlertNoCooldown(cooldowns, symbol, kline, historical_volumes, imbalance) ==
    LET last_alert_timestamp == None
        validation_result ==
            validate_volume_alert(symbol, kline, historical_volumes,
                                  last_alert_timestamp)
        imbalance_data ==
            IF settings.imbalance_enabled
            THEN _analyze_imbalance(imbalance) ELSE NoImbalance
    IN IF ~validation_result.valid
       THEN [alert |-> NoAlert, cooldowns |-> cooldowns]
       ELSE [alert |->
                [AlertBase("volume_spike", symbol, kline, TRUE) EXCEPT
                    !.volume_ratio = validation_result.volume_ratio,
                    !.current_volume_usdt = validation_result.current_volume_usdt,
                    !.average_volume_usdt = validation_result.average_volume_usdt,
                    !.is_true_signal = TRUE,
                    !.has_imbalance = imbalance_data # NoImbalance,
                    !.imbalance_data = imbalance_data],
             cooldowns |-> DictPut(cooldowns, symbol, _get_current_timestamp_ms)]

\* mutant: the alert is built whatever the validator answered
CheckVolumeAlertUnvalidated(cooldowns, symbol, kline, historical_volumes, imbalance) ==
    LET last_alert_timestamp == DictGet(cooldowns, symbol, None)
        validation_result ==
            validate_volume_alert(symbol, kline, historical_volumes,
                                  last_alert_timestamp)
    IN IF kline.shape # "ok"
       THEN [alert |-> NoAlert, cooldowns |-> cooldowns]
       ELSE [alert |->
                [AlertBase("volume_spike", symbol, kline, TRUE) EXCEPT
                    !.volume_ratio = validation_result.volume_ratio,
                    !.current_volume_usdt = validation_result.current_volume_usdt,
                    !.average_volume_usdt = validation_result.average_volume_usdt,
                    !.is_true_signal = TRUE],
             cooldowns |-> DictPut(cooldowns, symbol, _get_current_timestamp_ms)]

_check_volume_alert(cooldowns, symbol, kline, historical_volumes, imbalance) ==
    LET last_alert_timestamp == DictGet(cooldowns, symbol, None)
        validation_result ==
            validate_volume_alert(symbol, kline, historical_volumes,
                                  last_alert_timestamp)
        imbalance_data ==
            IF settings.imbalance_enabled
            THEN _analyze_imbalance(imbalance) ELSE NoImbalance
    IN IF ~validation_result.valid
       THEN [alert |-> NoAlert, cooldowns |-> cooldowns]
       ELSE [alert |->
                [AlertBase("volume_spike", symbol, kline, TRUE) EXCEPT
                    !.volume_ratio = validation_result.volume_ratio,
                    !.current_volume_usdt = validation_result.current_volume_usdt,
                    !.average_volume_usdt = validation_result.average_volume_usdt,
                    !.is_true_signal = TRUE,
                    !.has_imbalance = imbalance_data # NoImbalance,
                    !.imbalance_data = imbalance_data],
             cooldowns |-> DictPut(cooldowns, symbol, _get_current_timestamp_ms)]

\* mutant: the cooldown is still active when exactly the window has passed
CheckConsecutiveStrictCooldown(cooldowns, counters, symbol, kline, imbalance) ==
    LET consecutive_count == DictGet(counters, symbol, 0)
        last_alert_key == ConsecutiveKey(symbol)
        last_alert_timestamp == DictGet(cooldowns, last_alert_key, None)
        current_timestamp_ms == _get_current_timestamp_ms
        cooldown_period_ms == settings.alert_grouping_minutes * MsPerMinute
        imbalance_data == _analyze_imbalance(imbalance)
    IN IF consecutive_count < settings.consecutive_long_count
       THEN [alert |-> NoAlert, cooldowns |-> cooldowns]
       ELSE IF /\ last_alert_timestamp # None
               /\ current_timestamp_ms - last_alert_timestamp <= cooldown_period_ms
       THEN [alert |-> NoAlert, cooldowns |-> cooldowns]
       ELSE IF kline.shape # "ok"
       THEN [alert |-> NoAlert, cooldowns |-> cooldowns]
       ELSE [alert |->
                [AlertBase("consecutive_long", symbol, kline, FALSE) EXCEPT
                    !.consecutive_count = consecutive_count,
                    !.has_imbalance = imbalance_data # NoImbalance,
                    !.imbalance_data = imbalance_data],
             cooldowns |-> DictPut(cooldowns, last_alert_key, current_timestamp_ms)]

\* mutant: a candle rejected by the cooldown renews the entry
CheckConsecutiveRenewsOnReject(cooldowns, counters, symbol, kline, imbalance) ==
    LET consecutive_count == DictGet(counters, symbol, 0)
        last_alert_key == ConsecutiveKey(symbol)
        last_alert_timestamp == DictGet(cooldowns, last_alert_key, None)
        current_timestamp_ms == _get_current_timestamp_ms
        cooldown_period_ms == settings.alert_grouping_minutes * MsPerMinute
        imbalance_data == _analyze_imbalance(imbalance)
    IN IF consecutive_count < settings.consecutive_long_count
       THEN [alert |-> NoAlert, cooldowns |-> cooldowns]
       ELSE IF /\ last_alert_timestamp # None
               /\ current_timestamp_ms - last_alert_timestamp < cooldown_period_ms
       THEN [alert |-> NoAlert,
             cooldowns |-> DictPut(cooldowns, last_alert_key, current_timestamp_ms)]
       ELSE IF kline.shape # "ok"
       THEN [alert |-> NoAlert, cooldowns |-> cooldowns]
       ELSE [alert |->
                [AlertBase("consecutive_long", symbol, kline, FALSE) EXCEPT
                    !.consecutive_count = consecutive_count,
                    !.has_imbalance = imbalance_data # NoImbalance,
                    !.imbalance_data = imbalance_data],
             cooldowns |-> DictPut(cooldowns, last_alert_key, current_timestamp_ms)]

_check_consecutive_long_alert(cooldowns, counters, symbol, kline, imbalance) ==
    LET consecutive_count == DictGet(counters, symbol, 0)
        last_alert_key == ConsecutiveKey(symbol)
        last_alert_timestamp == DictGet(cooldowns, last_alert_key, None)
        current_timestamp_ms == _get_current_timestamp_ms
        cooldown_period_ms == settings.alert_grouping_minutes * MsPerMinute
        imbalance_data == _analyze_imbalance(imbalance)
    IN IF consecutive_count < settings.consecutive_long_count
       THEN [alert |-> NoAlert, cooldowns |-> cooldowns]
       ELSE IF /\ last_alert_timestamp # None
               /\ current_timestamp_ms - last_alert_timestamp < cooldown_period_ms
       THEN [alert |-> NoAlert, cooldowns |-> cooldowns]
       ELSE IF kline.shape # "ok"
       THEN [alert |-> NoAlert, cooldowns |-> cooldowns]
       ELSE [alert |->
                [AlertBase("consecutive_long", symbol, kline, FALSE) EXCEPT
                    !.consecutive_count = consecutive_count,
                    !.has_imbalance = imbalance_data # NoImbalance,
                    !.imbalance_data = imbalance_data],
             cooldowns |-> DictPut(cooldowns, last_alert_key, current_timestamp_ms)]

\* mutant: any earlier VolumeSpike counts as recent
RecentVolumeAlertAnyAge(cooldowns, signals, symbol, candles_back) ==
    LET current_timestamp_ms == _get_current_timestamp_ms
        last_volume_alert == DictGet(cooldowns, symbol, None)
        time_range_ms == candles_back * MsPerMinute
    IN \/ last_volume_alert # None
       \/ /\ symbol \in DOMAIN signals
          /\ current_timestamp_ms - signals[symbol].timestamp <= time_range_ms

_check_recent_volume_alert_in_range(cooldowns, signals, symbol, candles_back) ==
    LET current_timestamp_ms == _get_current_timestamp_ms
        last_volume_alert == DictGet(cooldowns, symbol, None)
        time_range_ms == candles_back * MsPerMinute
    IN \/ /\ last_volume_alert # None
          /\ current_timestamp_ms - last_volume_alert <= time_range_ms
       \/ /\ symbol \in DOMAIN signals
          /\ current_timestamp_ms - signals[symbol].timestamp <= time_range_ms

\* the last alert of the list whose type is in types, NoAlert when none
LastOfTypes(current_alerts, types) ==
    LET hits == {i \in 1..Len(current_alerts) : current_alerts[i].alert_type \in types}
    IN IF hits = {} THEN NoAlert
       ELSE current_alerts[CHOOSE i \in hits : \A j \in hits : j <= i]

\* mutant: only a VolumeSpike counts as the cycle's volume alert
PriorityVolumeTypesNoFinal == {"volume_spike"}

\* the alert types the loop takes as volume_alert
PriorityVolumeTypes == {"volume_spike", "final_volume_spike"}

\* mutant: the snapshot of the consecutive alert is used as it is
PriorityCandleDataNoUpdate(consecutive_alert, volume_alert) ==
    consecutive_alert.candle_data

\* candle_data = consecutive_alert['candle_data'], updated with the volume
\* alert's when there is one
PriorityCandleData(consecutive_alert, volume_alert) ==
    IF volume_alert # NoAlert
    THEN DictUpdate(consecutive_alert.candle_data, volume_alert.candle_data)
    ELSE consecutive_alert.candle_data

\* mutant: the imbalance of the consecutive alert comes first
PriorityImbalanceConsecutiveFirst(volume_alert, consecutive_alert) ==
    IF consecutive_alert.has_imbalance THEN consecutive_alert.imbalance_data
    ELSE IF volume_alert # NoAlert /\ volume_alert.has_imbalance
    THEN volume_alert.imbalance_data
    ELSE NoImbalance

\* imbalance_data of the priority alert: the volume alert's if it has one,
\* else the consecutive alert's if it has one
PriorityImbalance(volume_alert, consecutive_alert) ==
    IF volume_alert # NoAlert /\ volume_alert.has_imbalance
    THEN volume_alert.imbalance_data
    ELSE IF consecutive_alert.has_imbalance THEN consecutive_alert.imbalance_data
    ELSE NoImbalance

\* returns the priority alert, the list it was given as the step leaves it
\* (candle_data.update works on the consecutive alert's own dict), and what
\* the probe of recent volume alerts answered
_check_priority_signal(cooldowns, signals, symbol, current_alerts) ==
    LET volume_alert == LastOfTypes(current_alerts, PriorityVolumeTypes)
        consecutive_alert == LastOfTypes(current_alerts, {"consecutive_long"})
        recent_volume_alert ==
            /\ consecutive_alert # NoAlert
            /\ _check_recent_volume_alert_in_range(
                   cooldowns, signals, symbol, consecutive_alert.consecutive_count)
        valid ==
            validate_priority_alert(volume_alert # NoAlert,
                                    consecutive_alert # NoAlert, recent_volume_alert)
        candle_data == PriorityCandleData(consecutive_alert, volume_alert)
        imbalance_data == PriorityImbalance(volume_alert, consecutive_alert)
    IN IF ~valid
       THEN [alert |-> NoAlert, alerts |-> current_alerts,
             recent_volume_alert |-> recent_volume_alert]
       ELSE [alert |->
                [alert_type |-> "priority", symbol |-> symbol,
                 price |-> consecutive_alert.price,
                 timestamp |-> _get_current_timestamp_ms,
                 start |-> consecutive_alert.start,
                 is_true_signal |-> FALSE,
                 consecutive_count |-> consecutive_alert.consecutive_count,
                 volume_ratio |->
                    IF volume_alert # NoAlert THEN volume_alert.volume_ratio ELSE None,
                 current_volume_usdt |->
                    IF volume_alert # NoAlert
                    THEN volume_alert.current_volume_usdt ELSE None,
                 average_volume_usdt |->
                    IF volume_alert # NoAlert
                    THEN volume_alert.average_volume_usdt ELSE None,
                 preliminary_timestamp |-> None,
                 has_imbalance |-> imbalance_data # NoImbalance,
                 imbalance_data |-> imbalance_data,
                 candle_data |-> candle_data],
             alerts |->
                [i \in 1..Len(current_alerts) |->
                    IF current_alerts[i] = consecutive_alert
                    THEN [current_alerts[i] EXCEPT !.candle_data = candle_data]
                    ELSE current_alerts[i]],
             recent_volume_alert |-> recent_volume_alert]

ListOf(alert) == IF alert = NoAlert THEN << >> ELSE << alert >>

HasType(alert_list, type) ==
    \E i \in 1..Len(alert_list) : alert_list[i].alert_type = type

\* mutant: the pending signal is left in place
KeepPending(signals, symbol) == signals

\* del self.preliminary_signals[symbol], under "if symbol in ..."
ClearPending(signals, symbol) == DictDel(signals, symbol)

\* mutant: the consecutive alert is appended first
AppendConsecutiveFirst(final_alert, volume_alert, consecutive_alert) ==
    ListOf(consecutive_alert) \o ListOf(final_alert) \o ListOf(volume_alert)

\* the appends of the three detector steps, in the order of their calls
AppendDetected(final_alert, volume_alert, consecutive_alert) ==
    ListOf(final_alert) \o ListOf(volume_alert) \o ListOf(consecutive_alert)

\* mutant: a cycle that confirmed a pending signal skips the volume detector
ProcessClosedCandleFinalOnly(symbol, kline, historical_volumes, volume_imbalance, consecutive_imbalance) ==
    LET counters ==
            _update_consecutive_long_counter(consecutive_long_counters, symbol, kline)
        final_alert ==
            _check_final_volume_signal(preliminary_signals, symbol, kline)
        signals == ClearPending(preliminary_signals, symbol)
        volume ==
            IF settings.volume_alerts_enabled /\ final_alert = NoAlert
            THEN _check_volume_alert(alert_cooldowns, symbol, kline,
                                     historical_volumes, volume_imbalance)
            ELSE [alert |-> NoAlert, cooldowns |-> alert_cooldowns]
        consecutive ==
            IF settings.consecutive_alerts_enabled
            THEN _check_consecutive_long_alert(volume.cooldowns, counters, symbol,
                                               kline, consecutive_imbalance)
            ELSE [alert |-> NoAlert, cooldowns |-> volume.cooldowns]
        detected == AppendDetected(final_alert, volume.alert, consecutive.alert)
        priority ==
            IF settings.priority_alerts_enabled
            THEN _check_priority_signal(consecutive.cooldowns, signals, symbol, detected)
            ELSE [alert |-> NoAlert, alerts |-> detected,
                  recent_volume_alert |-> FALSE]
    IN [alerts |-> priority.alerts \o ListOf(priority.alert),
        recent_volume_alert |-> priority.recent_volume_alert,
        cooldowns |-> consecutive.cooldowns,
        counters |-> counters,
        signals |-> signals]

\* mutant: the run counter is kept only while the consecutive detector is on
ProcessClosedCandleCounterGated(symbol, kline, historical_volumes, volume_imbalance, consecutive_imbalance) ==
    LET counters ==
            IF settings.consecutive_alerts_enabled
            THEN _update_consecutive_long_counter(consecutive_long_counters, symbol, kline)
            ELSE consecutive_long_counters
        final_alert ==
            _check_final_volume_signal(preliminary_signals, symbol, kline)
        signals == ClearPending(preliminary_signals, symbol)
        volume ==
            IF settings.volume_alerts_enabled
            THEN _check_volume_alert(alert_cooldowns, symbol, kline,
                                     historical_volumes, volume_imbalance)
            ELSE [alert |-> NoAlert, cooldowns |-> alert_cooldowns]
        consecutive ==
            IF settings.consecutive_alerts_enabled
            THEN _check_consecutive_long_alert(volume.cooldowns, counters, symbol,
                                               kline, consecutive_imbalance)
            ELSE [alert |-> NoAlert, cooldowns |-> volume.cooldowns]
        detected == AppendDetected(final_alert, volume.alert, consecutive.alert)
        priority ==
            IF settings.priority_alerts_enabled
            THEN _check_priority_signal(consecutive.cooldowns, signals, symbol, detected)
            ELSE [alert |-> NoAlert, alerts |-> detected,
                  recent_volume_alert |-> FALSE]
    IN [alerts |-> priority.alerts \o ListOf(priority.alert),
        recent_volume_alert |-> priority.recent_volume_alert,
        cooldowns |-> consecutive.cooldowns,
        counters |-> counters,
        signals |-> signals]

_process_closed_candle(symbol, kline, historical_volumes, volume_imbalance, consecutive_imbalance) ==
    LET counters ==
            _update_consecutive_long_counter(consecutive_long_counters, symbol, kline)
        final_alert ==
            _check_final_volume_signal(preliminary_signals, symbol, kline)
        signals == ClearPending(preliminary_signals, symbol)
        volume ==
            IF settings.volume_alerts_enabled
            THEN _check_volume_alert(alert_cooldowns, symbol, kline,
                                     historical_volumes, volume_imbalance)
            ELSE [alert |-> NoAlert, cooldowns |-> alert_cooldowns]
        consecutive ==
            IF settings.consecutive_alerts_enabled
            THEN _check_consecutive_long_alert(volume.cooldowns, counters, symbol,
                                               kline, consecutive_imbalance)
            ELSE [alert |-> NoAlert, cooldowns |-> volume.cooldowns]
        detected == AppendDetected(final_alert, volume.alert, consecutive.alert)
        priority ==
            IF settings.priority_alerts_enabled
            THEN _check_priority_signal(consecutive.cooldowns, signals, symbol, detected)
            ELSE [alert |-> NoAlert, alerts |-> detected,
                  recent_volume_alert |-> FALSE]
    IN [alerts |-> priority.alerts \o ListOf(priority.alert),
        recent_volume_alert |-> priority.recent_volume_alert,
        cooldowns |-> consecutive.cooldowns,
        counters |-> counters,
        signals |-> signals]

----------------------------------------------------------------------------
(* Dispatch *)

Sinks == {"websocket", "telegram"}

\* one delivery: the index-th alert of the call, to a sink, accepted or raised
Delivery(index, alert, sink, up) ==
    [index |-> index, alert_type |-> alert.alert_type, sink |-> sink, ok |-> up[sink]]

\* _send_alert: broadcast_json, then the telegram call of the alert's kind,
\* inside one try whose except logs; what is raised by the first skips the second
_send_alert(index, alert, up) ==
    IF up["websocket"]
    THEN << Delivery(index, alert, "websocket", up),
            Delivery(index, alert, "telegram", up) >>
    ELSE << Delivery(index, alert, "websocket", up) >>

RECURSIVE SendFrom(_, _, _)
SendFrom(alert_list, index, up) ==
    IF index > Len(alert_list) THEN << >>
    ELSE _send_alert(index, alert_list[index], up)
         \o SendFrom(alert_list, index + 1, up)

\* mutant: what a sink raises leaves _send_alert and ends the loop
SendAlertsUntilFailure(alert_list, up) ==
    LET all == SendFrom(alert_list, 1, up)
        failed == {k \in 1..Len(all) : ~all[k].ok}
        last == IF failed = {} THEN Len(all)
                ELSE CHOOSE k \in failed : \A j \in failed : k <= j
    IN [sent |-> IF failed = {} THEN alert_list
                 ELSE SubSeq(alert_list, 1, all[last].index),
        attempts |-> SubSeq(all, 1, last)]

\* for alert in alerts: await self._send_alert(alert)
SendAlerts(alert_list, up) ==
    [sent |-> alert_list, attempts |-> SendFrom(alert_list, 1, up)]

----------------------------------------------------------------------------
(* Settings *)

\* what get_setting reads from the .env file, after its type conversion
EnvFile ==
    [VOLUME_ALERTS_ENABLED |-> TRUE, CONSECUTIVE_ALERTS_ENABLED |-> TRUE,
     PRIORITY_ALERTS_ENABLED |-> TRUE, IMBALANCE_ENABLED |-> TRUE,
     VOLUME_MULTIPLIER |-> VolumeMultiplierTenths,
     MIN_VOLUME_USDT |-> MinVolumeUsdt,
     CONSECUTIVE_LONG_COUNT |-> RunThreshold,
     ALERT_GROUPING_MINUTES |-> CooldownMinutes,
     VOLUME_TYPE |-> "long"]

get_setting(key, default) == IF key \in DOMAIN EnvFile THEN EnvFile[key] ELSE default

\* key.lower() on the setting_keys the detectors read
LowerKey ==
    [VOLUME_ALERTS_ENABLED |-> "volume_alerts_enabled",
     CONSECUTIVE_ALERTS_ENABLED |-> "consecutive_alerts_enabled",
     PRIORITY_ALERTS_ENABLED |-> "priority_alerts_enabled",
     IMBALANCE_ENABLED |-> "imbalance_enabled",
     VOLUME_MULTIPLIER |-> "volume_multiplier",
     MIN_VOLUME_USDT |-> "min_volume_usdt",
     CONSECUTIVE_LONG_COUNT |-> "consecutive_long_count",
     ALERT_GROUPING_MINUTES |-> "alert_grouping_minutes",
     VOLUME_TYPE |-> "volume_type"]

setting_keys == DOMAIN LowerKey

UpperKey(setting_key) == CHOOSE key \in setting_keys : LowerKey[key] = setting_key

InitialSettings ==
    [setting_key \in {LowerKey[key] : key \in setting_keys} |->
        get_setting(UpperKey(setting_key), None)]

update_settings(current, new_settings) ==
    [setting_key \in DOMAIN current |->
        IF UpperKey(setting_key) \in DOMAIN new_settings
        THEN new_settings[UpperKey(setting_key)]
        ELSE get_setting(UpperKey(setting_key), current[setting_key])]

\* the dicts a settings request passes to update_settings
NewSettings ==
    {<< >>,
     [VOLUME_ALERTS_ENABLED |-> FALSE],
     [CONSECUTIVE_ALERTS_ENABLED |-> FALSE],
     [PRIORITY_ALERTS_ENABLED |-> FALSE]}

----------------------------------------------------------------------------
(* Operations. One call runs at a time; lastCall, alerts and sent describe  *)
(* it until its caller has taken the result.                               *)

Idle == [op |-> "idle"]

Delivered == bucket["BTCUSDT"] + bucket["ETHUSDT"]

Init ==
    /\ now = StartMs
    /\ settings = InitialSettings
    /\ alert_cooldowns = EmptyDict
    /\ consecutive_long_counters = EmptyDict
    /\ preliminary_signals = EmptyDict
    /\ has_is_candle_closed \in BOOLEAN
    /\ trading_pairs = {"BTCUSDT"}
    /\ bucket = [s \in Symbols |-> 0]
    /\ closed = [s \in Symbols |-> << >>]
    /\ alerts = << >>
    /\ sent = << >>
    /\ lastCall = Idle
    /\ sink_up = [s \in Sinks |-> TRUE]
    /\ attempts = << >>
    /\ running = << >>

\* mutant: the answer of is_candle_closed routes every kline
RouteOfPredicateOnly(kline, predicate) ==
    IF (IF has_is_candle_closed THEN predicate ELSE kline.confirm)
    THEN "closed" ELSE "unconfirmed"

\* the branch process_kline_data takes: the confirm flag first, then is_closed
RouteOf(kline, predicate) ==
    IF ~kline.confirm THEN "unconfirmed"
    ELSE IF (IF has_is_candle_closed THEN predicate ELSE kline.confirm)
    THEN "closed" ELSE "skipped"

\* process_kline_data on the next event of symbol's stream: a tick of the open
\* candle, or its confirmed kline, after which the next candle opens
ProcessKline(symbol, kline, predicate, answer, volume_imbalance, consecutive_imbalance) ==
    LET historical_volumes == get_historical_long_volumes(answer)
        route == RouteOf(kline, predicate)
        preliminary_alert ==
            _check_preliminary_volume_signal(symbol, kline, historical_volumes)
        cycle == _process_closed_candle(symbol, kline, historical_volumes,
                                        volume_imbalance, consecutive_imbalance)
        analyzer_input ==
            [volume_spike |->
                IF /\ route = "closed"
                   /\ HasType(cycle.alerts, "volume_spike")
                   /\ settings.imbalance_enabled
                THEN AnalyzerInput(volume_imbalance) ELSE NotCalled,
             consecutive_long |->
                IF route = "closed" /\ HasType(cycle.alerts, "consecutive_long")
                THEN AnalyzerInput(consecutive_imbalance) ELSE NotCalled]
    IN /\ lastCall = Idle
       /\ kline.confirm => Delivered < MaxCandles
       /\ bucket' = IF kline.confirm
                    THEN [bucket EXCEPT ![symbol] = @ + 1] ELSE bucket
       /\ lastCall' = [op |-> "process_kline_data", symbol |-> symbol,
                       kline |-> kline, predicate |-> predicate,
                       historical_volumes |-> historical_volumes, route |-> route,
                       history_failed |-> answer.failed,
                       imbalance |-> [volume_spike |-> volume_imbalance,
                                      consecutive_long |-> consecutive_imbalance],
                       analyzer_input |-> analyzer_input,
                       recent_volume_alert |->
                          route = "closed" /\ cycle.recent_volume_alert]
       /\ CASE route = "unconfirmed" ->
                 /\ alerts' = ListOf(preliminary_alert)
                 /\ preliminary_signals' =
                        IF preliminary_alert # NoAlert
                        THEN DictPut(preliminary_signals, symbol, preliminary_alert)
                        ELSE preliminary_signals
                 /\ sent' = << >>
                 /\ attempts' = << >>
                 /\ UNCHANGED << alert_cooldowns, consecutive_long_counters, closed >>
            [] route = "closed" ->
                 /\ alerts' = cycle.alerts
                 /\ sent' = SendAlerts(cycle.alerts, sink_up).sent
                 /\ attempts' = SendAlerts(cycle.alerts, sink_up).attempts
                 /\ alert_cooldowns' = cycle.cooldowns
                 /\ consecutive_long_counters' = cycle.counters
                 /\ preliminary_signals' = cycle.signals
                 /\ closed' = IF kline.shape = "no_price" THEN closed
                              ELSE [closed EXCEPT ![symbol] = Append(@, IsLong(kline))]
            [] OTHER ->
                 /\ alerts' = << >>
                 /\ sent' = << >>
                 /\ attempts' = << >>
                 /\ UNCHANGED << alert_cooldowns, consecutive_long_counters,
                                 preliminary_signals, closed >>
       /\ UNCHANGED << now, settings, has_is_candle_closed, trading_pairs,
                       sink_up, running >>

\* The inputs of one call. The predicate's answer is drawn when time_manager
\* has one; the providers' answers are drawn only where a step compares
\* them: the historical volumes when the kline passes the checks made
\* before them, an imbalance outcome per alert that asks for one.
NoAnswer == [stored |-> << >>, result |-> NoImbalance]

ReadsHistory(kline, route) ==
    /\ kline.shape = "ok"
    /\ QuoteVolume(kline) >= settings.min_volume_usdt
    /\ \/ route = "unconfirmed" /\ IsLong(kline)
       \/ /\ route = "closed"
          /\ settings.volume_alerts_enabled
          /\ settings.volume_type = "long" => IsLong(kline)
          /\ settings.volume_type = "short" => ~IsLong(kline)

KlineFrom(answers) ==
    /\ lastCall = Idle
    /\ \E symbol \in trading_pairs :
         \E kline \in KlinesOf(bucket[symbol]) :
           \E predicate \in IF has_is_candle_closed THEN BOOLEAN ELSE {TRUE} :
             \E answer \in
                   IF ReadsHistory(kline, RouteOf(kline, predicate))
                   THEN answers ELSE {NoQuery} :
               LET found == IF RouteOf(kline, predicate) = "closed"
                            THEN _process_closed_candle(
                                     symbol, kline, get_historical_long_volumes(answer),
                                     NoAnswer, NoAnswer).alerts
                            ELSE << >>
               IN \E volume_imbalance \in
                        IF HasType(found, "volume_spike") /\ settings.imbalance_enabled
                        THEN ImbalanceOutcomes ELSE {NoAnswer},
                     consecutive_imbalance \in
                        IF HasType(found, "consecutive_long")
                        THEN ImbalanceOutcomes ELSE {NoAnswer} :
                       ProcessKline(symbol, kline, predicate, answer,
                                    volume_imbalance, consecutive_imbalance)

Kline == KlineFrom(HistoryAnswers)

\* the stream when the history window may also sit at the limits
KlineBoundary == KlineFrom(BoundaryAnswers)

NoCallResult ==
    /\ alerts' = << >> /\ sent' = << >> /\ attempts' = << >>
    /\ UNCHANGED << sink_up, running >>

\* the clock moves on
Tick ==
    /\ lastCall = Idle
    /\ \E t \in Instants : t > now /\ now' = t
    /\ lastCall' = [op |-> "tick"]
    /\ NoCallResult
    /\ UNCHANGED << settings, alert_cooldowns, consecutive_long_counters,
                    preliminary_signals, has_is_candle_closed, trading_pairs,
                    bucket, closed >>

\* mutant: a stale entry is reset instead of deleted
CleanupResetsStale(cooldowns) ==
    LET current_timestamp_ms == _get_current_timestamp_ms
        cooldown_cutoff_ms == current_timestamp_ms - CleanupHorizonMinutes * MsPerMinute
    IN [key \in DOMAIN cooldowns |->
            IF cooldowns[key] < cooldown_cutoff_ms THEN None ELSE cooldowns[key]]

\* mutant: an entry exactly one horizon old is deleted as well
CleanupAtHorizon(cooldowns) ==
    LET current_timestamp_ms == _get_current_timestamp_ms
        cooldown_cutoff_ms == current_timestamp_ms - CleanupHorizonMinutes * MsPerMinute
    IN [key \in {k \in DOMAIN cooldowns : ~(cooldowns[k] <= cooldown_cutoff_ms)} |->
            cooldowns[key]]

cleanup_old_data(cooldowns) ==
    LET current_timestamp_ms == _get_current_timestamp_ms
        cooldown_cutoff_ms == current_timestamp_ms - CleanupHorizonMinutes * MsPerMinute
    IN [key \in {k \in DOMAIN cooldowns : ~(cooldowns[k] < cooldown_cutoff_ms)} |->
            cooldowns[key]]

Cleanup ==
    /\ lastCall = Idle
    /\ alert_cooldowns' = cleanup_old_data(alert_cooldowns)
    /\ lastCall' = [op |-> "cleanup_old_data"]
    /\ NoCallResult
    /\ UNCHANGED << now, settings, consecutive_long_counters, preliminary_signals,
                    has_is_candle_closed, trading_pairs, bucket, closed >>

UpdateSettings ==
    /\ lastCall = Idle
    /\ \E new_settings \in NewSettings :
          settings' = update_settings(settings, new_settings)
    /\ lastCall' = [op |-> "update_settings"]
    /\ NoCallResult
    /\ UNCHANGED << now, alert_cooldowns, consecutive_long_counters,
                    preliminary_signals, has_is_candle_closed, trading_pairs,
                    bucket, closed >>

\* the caller takes the result of the call
Return ==
    /\ lastCall # Idle
    /\ lastCall' = Idle
    /\ NoCallResult
    /\ UNCHANGED << now, settings, alert_cooldowns, consecutive_long_counters,
                    preliminary_signals, has_is_candle_closed, trading_pairs,
                    bucket, closed >>

Next == Kline \/ Tick \/ Cleanup \/ UpdateSettings \/ Return

Spec == Init /\ [][Next]_vars

\* The process stops and starts again: a new AlertManager is constructed,
\* while the kline_data rows stored so far stay in the database.
Restart ==
    /\ lastCall = Idle
    /\ settings' = InitialSettings
    /\ alert_cooldowns' = EmptyDict
    /\ consecutive_long_counters' = EmptyDict
    /\ preliminary_signals' = EmptyDict
    /\ lastCall' = [op |-> "restart"]
    /\ NoCallResult
    /\ UNCHANGED << now, has_is_candle_closed, trading_pairs, bucket, closed >>

RestartNext == Next \/ Restart

\* a sink starts or stops raising on delivery (a lost websocket peer, the
\* telegram API refusing)
SinkChange ==
    /\ lastCall = Idle
    /\ \E sink \in Sinks : sink_up' = [sink_up EXCEPT ![sink] = ~@]
    /\ lastCall' = [op |-> "sink_change"]
    /\ alerts' = << >> /\ sent' = << >> /\ attempts' = << >>
    /\ UNCHANGED << now, settings, alert_cooldowns, consecutive_long_counters,
                    preliminary_signals, has_is_candle_closed, trading_pairs,
                    bucket, closed, running >>

\* the stream while sinks fail and recover, the settings left as loaded
FaultNext == Kline \/ Tick \/ Return \/ SinkChange

FaultSpec == Init /\ [][FaultNext]_vars

\* The scheduling of the runs. A process_kline_data run is a coroutine: it is
\* suspended where it awaits the history query, the imbalance analysis and
\* the sinks, and other runs may proceed meanwhile. What a run does to the
\* manager's state is the Kline action; here is only which runs are in
\* flight and where each is suspended.
SuspensionPoints == << "history", "imbalance", "dispatch" >>

RunsOf(runs, symbol) == {i \in 1..Len(runs) : runs[i].symbol = symbol}

\* mutant: the handler starts a run for every message as it arrives
UnitFreeAlways(runs, symbol) == TRUE

\* the stream handler of a symbol awaits each run before it takes the
\* symbol's next event
UnitFree(runs, symbol) == RunsOf(runs, symbol) = {}

Without(runs, i) == SubSeq(runs, 1, i - 1) \o SubSeq(runs, i + 1, Len(runs))

UnitBegin ==
    /\ lastCall = Idle
    /\ Len(running) < MaxInFlight
    /\ \E symbol \in trading_pairs, confirm \in BOOLEAN :
          /\ UnitFree(running, symbol)
          /\ confirm => Delivered + Cardinality({i \in 1..Len(running) : running[i].confirm})
                           < MaxCandles
          /\ running' = Append(running, [symbol |-> symbol, confirm |-> confirm, at |-> 1])
    /\ UNCHANGED << now, settings, alert_cooldowns, consecutive_long_counters,
                    preliminary_signals, has_is_candle_closed, trading_pairs,
                    bucket, closed, alerts, sent, lastCall, sink_up, attempts >>

\* a closed-candle run goes on from one await to the next
UnitResume ==
    /\ \E i \in 1..Len(running) :
          /\ running[i].confirm
          /\ running[i].at < Len(SuspensionPoints)
          /\ running' = [running EXCEPT ![i].at = @ + 1]
    /\ UNCHANGED << now, settings, alert_cooldowns, consecutive_long_counters,
                    preliminary_signals, has_is_candle_closed, trading_pairs,
                    bucket, closed, alerts, sent, lastCall, sink_up, attempts >>

\* a run returns: an unconfirmed tick after the history query, a closed
\* candle after the dispatch
UnitComplete ==
    /\ \E i \in 1..Len(running) :
          /\ ~running[i].confirm \/ running[i].at = Len(SuspensionPoints)
          /\ running' = Without(running, i)
          /\ bucket' = IF running[i].confirm
                       THEN [bucket EXCEPT ![running[i].symbol] = @ + 1] ELSE bucket
    /\ UNCHANGED << now, settings, alert_cooldowns, consecutive_long_counters,
                    preliminary_signals, has_is_candle_closed, trading_pairs,
                    closed, alerts, sent, lastCall, sink_up, attempts >>

\* on_pairs_updated: the stream subscribes to new pairs and drops removed ones
PairsUpdated ==
    /\ lastCall = Idle
    /\ \E new_pairs \in SUBSET (Symbols \ trading_pairs),
          removed_pairs \in SUBSET trading_pairs :
          /\ new_pairs \cup removed_pairs # {}
          /\ trading_pairs' = (trading_pairs \cup new_pairs) \ removed_pairs
    /\ lastCall' = [op |-> "on_pairs_updated"]
    /\ NoCallResult
    /\ UNCHANGED << now, settings, alert_cooldowns, consecutive_long_counters,
                    preliminary_signals, has_is_candle_closed, bucket, closed >>

\* periodic_cleanup: await asyncio.sleep(3600), after which it calls cleanup_old_data
SleepHour ==
    /\ lastCall = Idle
    /\ \E t \in Instants :
          t > now + CleanupHorizonMinutes * MsPerMinute /\ now' = t
    /\ lastCall' = [op |-> "sleep"]
    /\ NoCallResult
    /\ UNCHANGED << settings, alert_cooldowns, consecutive_long_counters,
                    preliminary_signals, has_is_candle_closed, trading_pairs,
                    bucket, closed >>

\* the stream over a changing set of pairs, the settings left as loaded and
\* the clock read at the hours of periodic_cleanup
PairsNext == Kline \/ Return \/ PairsUpdated \/ SleepHour \/ Cleanup

PairsSpec == Init /\ [][PairsNext]_vars

UnitNext == PairsUpdated \/ Return \/ UnitBegin \/ UnitResume \/ UnitComplete

UnitSpec == Init /\ [][UnitNext]_vars

RestartSpec == Init /\ [][RestartNext]_vars

\* the direction modes VOLUME_TYPE may name in the .env file
VolumeTypes == {"long", "short", "all"}

\* the manager as constructed from a .env file with any of the modes, the
\* confirm flag deciding what is closed
VolumeInit ==
    /\ now = StartMs
    /\ \E volume_type \in VolumeTypes :
          settings = [InitialSettings EXCEPT !.volume_type = volume_type]
    /\ alert_cooldowns = EmptyDict
    /\ consecutive_long_counters = EmptyDict
    /\ preliminary_signals = EmptyDict
    /\ has_is_candle_closed = FALSE
    /\ trading_pairs = {"BTCUSDT"}
    /\ bucket = [s \in Symbols |-> 0]
    /\ closed = [s \in Symbols |-> << >>]
    /\ alerts = << >>
    /\ sent = << >>
    /\ lastCall = Idle
    /\ sink_up = [s \in Sinks |-> TRUE]
    /\ attempts = << >>
    /\ running = << >>

VolumeNext == KlineBoundary \/ Tick \/ Return

VolumeSpec == VolumeInit /\ [][VolumeNext]_vars

----------------------------------------------------------------------------
(* Vocabulary of the properties *)

\* the length of the maximal run of long candles that ends the history
RECURSIVE TrailingRun(_)
TrailingRun(history) ==
    IF history = << >> THEN 0
    ELSE IF ~history[Len(history)] THEN 0
    ELSE 1 + TrailingRun(SubSeq(history, 1, Len(history) - 1))

CountOfType(alert_list, type) ==
    Cardinality({i \in 1..Len(alert_list) : alert_list[i].alert_type = type})

AlertOfType(alert_list, type) ==
    alert_list[CHOOSE i \in 1..Len(alert_list) : alert_list[i].alert_type = type]

\* the step is a process_kline_data call that ran the closed-candle pipeline
ClosedCycle == lastCall'.op = "process_kline_data" /\ lastCall'.route = "closed"

\* the state right after such a call
AfterClosedCycle == lastCall.op = "process_kline_data" /\ lastCall.route = "closed"

CooldownWindowMs == settings.alert_grouping_minutes * MsPerMinute

AllLong(history) == \A i \in 1..Len(history) : history[i]

DispatchRank(type) ==
    CASE type = "final_volume_spike" -> 1
      [] type = "volume_spike" -> 2
      [] type = "consecutive_long" -> 3
      [] type = "priority" -> 4
      [] OTHER -> 0

----------------------------------------------------------------------------
(* C1: for every symbol, after any sequence of candles taken by the        *)
(* closed-candle pipeline, whatever the toggles, the run counter (absent   *)
(* = 0) equals the length of the maximal trailing run of candles with      *)
(* close > open.                                                           *)
C1_CounterIsTrailingRun ==
    \A symbol \in Symbols :
        DictGet(consecutive_long_counters, symbol, 0) = TrailingRun(closed[symbol])

\* a run of two long candles was reset to 0 by a candle with close <= open
C1_Witness ==
    \E symbol \in Symbols :
        /\ closed[symbol] = << TRUE, TRUE, FALSE >>
        /\ symbol \notin DOMAIN consecutive_long_counters

(* C2: while alert_cooldowns[S] = T, a candle of S confirmed at a time     *)
(* T' < T + cooldownWindow produces no VolumeSpike alert, whatever the     *)
(* ratio of its volume to the historical mean.                             *)
C2_VolumeCooldown ==
    [][\A symbol \in Symbols :
          ( /\ ClosedCycle
            /\ lastCall'.symbol = symbol
            /\ symbol \in DOMAIN alert_cooldowns
            /\ now < alert_cooldowns[symbol] + CooldownWindowMs )
          => ~HasType(alerts', "volume_spike")]_vars

\* a long candle with ratio 5.5 was confirmed inside the cooldown of an
\* earlier VolumeSpike and the enabled volume detector produced nothing
C2_Witness ==
    /\ AfterClosedCycle
    /\ settings.volume_alerts_enabled
    /\ lastCall.kline.shape = "ok" /\ IsLong(lastCall.kline)
    /\ lastCall.historical_volumes = Samples(20, 1000)
    /\ lastCall.symbol \in DOMAIN alert_cooldowns
    /\ alert_cooldowns[lastCall.symbol] < now
    /\ now < alert_cooldowns[lastCall.symbol] + CooldownWindowMs
    /\ ~HasType(alerts, "volume_spike")

(* C3: with the consecutive detector enabled and a well-formed confirmed   *)
(* candle, a ConsecutiveLong alert is produced in the cycle if and only if *)
(* the run counter after the candle's update is >= runThreshold and        *)
(* no lastFired entry exists for (S, consecutive) or now - lastFired >=    *)
(* cooldownWindow; the alert's consecutive_count equals the counter.       *)
C3_ConsecutiveIff ==
    [][\A symbol \in Symbols :
          ( /\ ClosedCycle
            /\ lastCall'.symbol = symbol
            /\ lastCall'.kline.shape = "ok"
            /\ settings.consecutive_alerts_enabled )
          => LET counter == DictGet(consecutive_long_counters', symbol, 0)
                 key == ConsecutiveKey(symbol)
                 due == /\ counter >= settings.consecutive_long_count
                        /\ \/ key \notin DOMAIN alert_cooldowns
                           \/ now - alert_cooldowns[key] >= CooldownWindowMs
             IN /\ HasType(alerts', "consecutive_long") <=> due
                /\ due => /\ CountOfType(alerts', "consecutive_long") = 1
                          /\ AlertOfType(alerts', "consecutive_long").consecutive_count
                               = counter]_vars

\* a second ConsecutiveLong fired exactly when the cooldown window had elapsed
C3_Witness ==
    /\ AfterClosedCycle
    /\ HasType(alerts, "consecutive_long")
    /\ AlertOfType(alerts, "consecutive_long").consecutive_count > settings.consecutive_long_count
    /\ now > StartMs

(* C4: for a fresh symbol with no cooldown entry and runThreshold = N,     *)
(* the first N-1 confirmed long candles produce no ConsecutiveLong, the    *)
(* Nth produces exactly one, with consecutive_count = N, and a further     *)
(* long candle confirmed inside the cooldown window produces none.         *)
C4_ScenarioB ==
    [][\A symbol \in Symbols :
          ( /\ ClosedCycle
            /\ lastCall'.symbol = symbol
            /\ lastCall'.kline.shape = "ok"
            /\ settings.consecutive_alerts_enabled
            /\ AllLong(closed'[symbol]) )
          => LET n == Len(closed'[symbol])
                 threshold == settings.consecutive_long_count
                 key == ConsecutiveKey(symbol)
             IN /\ n < threshold => ~HasType(alerts', "consecutive_long")
                /\ (n = threshold /\ key \notin DOMAIN alert_cooldowns)
                     => /\ CountOfType(alerts', "consecutive_long") = 1
                        /\ AlertOfType(alerts', "consecutive_long").consecutive_count
                             = threshold
                /\ ( /\ n = threshold + 1
                     /\ key \in DOMAIN alert_cooldowns
                     /\ now < alert_cooldowns[key] + CooldownWindowMs )
                     => ~HasType(alerts', "consecutive_long")]_vars

\* the candle after the Nth long one, confirmed inside the cooldown of the
\* ConsecutiveLong the Nth produced
C4_Witness ==
    \E symbol \in Symbols :
        LET key == ConsecutiveKey(symbol)
        IN /\ AfterClosedCycle
           /\ lastCall.symbol = symbol
           /\ lastCall.kline.shape = "ok"
           /\ settings.consecutive_alerts_enabled
           /\ AllLong(closed[symbol])
           /\ Len(closed[symbol]) = settings.consecutive_long_count + 1
           /\ key \in DOMAIN alert_cooldowns
           /\ alert_cooldowns[key] < now
           /\ now < alert_cooldowns[key] + CooldownWindowMs
           /\ ~HasType(alerts, "consecutive_long")

(* C5: a closed-candle cycle of a symbol consumes the symbol's pending     *)
(* preliminary signal: preliminary_signals has no entry for the symbol     *)
(* right after the cycle, whether or not a FinalVolumeSpike was produced   *)
(* and whatever the candle's direction; at most one FinalVolumeSpike is    *)
(* produced and it is the confirmation of the signal that was pending.     *)
C5_PendingConsumedOnce ==
    [][\A symbol \in Symbols :
          (ClosedCycle /\ lastCall'.symbol = symbol)
          => /\ symbol \notin DOMAIN preliminary_signals'
             /\ CountOfType(alerts', "final_volume_spike") <= 1
             /\ HasType(alerts', "final_volume_spike")
                  => /\ symbol \in DOMAIN preliminary_signals
                     /\ AlertOfType(alerts', "final_volume_spike").preliminary_timestamp
                          = preliminary_signals[symbol].timestamp]_vars

\* a pending signal was confirmed as a false signal by a candle that
\* closed short, and is gone
C5_Witness ==
    /\ AfterClosedCycle
    /\ HasType(alerts, "final_volume_spike")
    /\ ~AlertOfType(alerts, "final_volume_spike").is_true_signal
    /\ lastCall.symbol \notin DOMAIN preliminary_signals

(* C6: a FinalVolumeSpike produced by a confirmed candle resolves a        *)
(* preliminary signal created by an unconfirmed tick of that same candle  *)
(* (same time bucket), never one created for another candle.               *)
C6_FinalResolvesSameCandle ==
    [][\A symbol \in Symbols :
          ( /\ ClosedCycle
            /\ lastCall'.symbol = symbol
            /\ HasType(alerts', "final_volume_spike") )
          => /\ symbol \in DOMAIN preliminary_signals
             /\ preliminary_signals[symbol].start = lastCall'.kline.start]_vars

(* C7: a Priority alert is produced in a cycle only if a ConsecutiveLong   *)
(* alert was produced in that cycle and a VolumeSpike or FinalVolumeSpike  *)
(* was produced in it or the last VolumeSpike of the symbol lies at most   *)
(* consecutive_count minutes back.                                         *)
C7_PriorityOnlyIf ==
    HasType(alerts, "priority")
    => /\ HasType(alerts, "consecutive_long")
       /\ \/ HasType(alerts, "volume_spike")
          \/ HasType(alerts, "final_volume_spike")
          \/ /\ lastCall.symbol \in DOMAIN alert_cooldowns
             /\ now - alert_cooldowns[lastCall.symbol]
                  <= AlertOfType(alerts, "consecutive_long").consecutive_count
                       * MsPerMinute

\* Priority from a ConsecutiveLong alone, on the strength of a VolumeSpike
\* of an earlier minute
C7_Witness ==
    /\ HasType(alerts, "priority")
    /\ ~HasType(alerts, "volume_spike")
    /\ ~HasType(alerts, "final_volume_spike")
    /\ alert_cooldowns[lastCall.symbol] < now

(* C8: the alerts of one cycle are passed to _send_alert in the order      *)
(* FinalVolumeSpike, VolumeSpike, ConsecutiveLong, Priority.               *)
C8_DispatchOrder ==
    \A i, j \in 1..Len(sent) :
        i < j => /\ DispatchRank(sent[i].alert_type) > 0
                 /\ DispatchRank(sent[i].alert_type) < DispatchRank(sent[j].alert_type)

\* a cycle that dispatched one alert of each of the four kinds
C8_Witness ==
    /\ Len(sent) = 4
    /\ \A type \in {"final_volume_spike", "volume_spike", "consecutive_long", "priority"} :
          HasType(sent, type)

(* C9: every alert process_kline_data returns, of any kind, has been       *)
(* passed to _send_alert exactly once before the call returns.             *)
C9_ReturnedAlertsDispatched ==
    lastCall.op = "process_kline_data" => sent = alerts

(* C10: when time_manager has is_candle_closed, its answer alone routes    *)
(* the candle, to the closed-candle pipeline when true and to the          *)
(* unconfirmed path when false, whatever the confirm flag; the confirm     *)
(* flag routes only when there is no predicate.                            *)
C10_PredicateRoutes ==
    lastCall.op = "process_kline_data"
    => lastCall.route =
         IF (IF has_is_candle_closed THEN lastCall.predicate ELSE lastCall.kline.confirm)
         THEN "closed" ELSE "unconfirmed"

(* C11: after a restart the run counter is resynchronised from the stored  *)
(* closed candles: on every closed candle the counter the consecutive      *)
(* detector reads equals the trailing run of long candles in the stored    *)
(* history including that candle.                                          *)
C11_CounterResynchronised ==
    [][\A symbol \in Symbols :
          ( /\ ClosedCycle
            /\ lastCall'.symbol = symbol
            /\ lastCall'.kline.shape = "ok" )
          => DictGet(consecutive_long_counters', symbol, 0)
               = TrailingRun(closed'[symbol])]_vars

(* C12: the value stored as lastFired[S,K] never decreases over             *)
(* process_kline_data and cleanup_old_data calls: a write stores a value   *)
(* >= the value held for the key, and no held value is ahead of the clock  *)
(* that a write after a pruning stores.                                    *)
C12_LastFiredMonotone ==
    [][/\ \A key \in DOMAIN alert_cooldowns' :
             alert_cooldowns'[key] >= DictGet(alert_cooldowns, key, None)
       /\ \A key \in DOMAIN alert_cooldowns : alert_cooldowns[key] <= now']_vars

\* the consecutive entry was written again, by the alert of the candle after
\* the one that reached the threshold, once the window of the first had passed
C12_Witness ==
    \E symbol \in Symbols :
        /\ AfterClosedCycle
        /\ lastCall.symbol = symbol
        /\ HasType(alerts, "consecutive_long")
        /\ AlertOfType(alerts, "consecutive_long").consecutive_count
             = settings.consecutive_long_count + 1
        /\ alert_cooldowns[ConsecutiveKey(symbol)] = now
        /\ now >= StartMs + CooldownWindowMs
        /\ symbol \in DOMAIN alert_cooldowns
        /\ alert_cooldowns[symbol] < now

\* what a dict holds for a key: the value, or nothing
Entry(d, key) == IF key \in DOMAIN d THEN << d[key] >> ELSE << >>

(* C13: cooldown entries of distinct (symbol, kind) pairs are independent. *)
(* A process_kline_data call for S changes no cooldown entry, counter or   *)
(* pending signal of another symbol; it changes the volume entry of S only *)
(* with a VolumeSpike and the consecutive entry of S only with a           *)
(* ConsecutiveLong; cleanup_old_data keeps every entry that is not itself  *)
(* older than the horizon.                                                 *)
C13_EntriesIndependent ==
    [][/\ \A symbol \in Symbols :
             (lastCall'.op = "process_kline_data" /\ lastCall'.symbol = symbol)
             => /\ \A other \in Symbols \ {symbol} :
                      /\ Entry(alert_cooldowns', other) = Entry(alert_cooldowns, other)
                      /\ Entry(alert_cooldowns', ConsecutiveKey(other))
                           = Entry(alert_cooldowns, ConsecutiveKey(other))
                      /\ Entry(consecutive_long_counters', other)
                           = Entry(consecutive_long_counters, other)
                      /\ Entry(preliminary_signals', other)
                           = Entry(preliminary_signals, other)
                /\ ~HasType(alerts', "volume_spike")
                     => Entry(alert_cooldowns', symbol) = Entry(alert_cooldowns, symbol)
                /\ ~HasType(alerts', "consecutive_long")
                     => Entry(alert_cooldowns', ConsecutiveKey(symbol))
                          = Entry(alert_cooldowns, ConsecutiveKey(symbol))
       /\ lastCall'.op = "cleanup_old_data"
             => \A key \in DOMAIN alert_cooldowns :
                   alert_cooldowns[key] >= now - CleanupHorizonMinutes * MsPerMinute
                   => Entry(alert_cooldowns', key) = Entry(alert_cooldowns, key)]_vars

\* a ConsecutiveLong of one symbol wrote its entry while the other symbol
\* held a volume entry and a pending signal
C13_Witness ==
    \E symbol \in Symbols, other \in Symbols :
        /\ symbol # other
        /\ AfterClosedCycle
        /\ lastCall.symbol = symbol
        /\ HasType(alerts, "consecutive_long")
        /\ alert_cooldowns[ConsecutiveKey(symbol)] = now
        /\ other \in DOMAIN alert_cooldowns
        /\ other \in DOMAIN preliminary_signals
        /\ ConsecutiveKey(other) \notin DOMAIN alert_cooldowns

(* C14: when the delivery of an alert to one sink raises, the delivery of  *)
(* that alert to the other sink is still attempted, and no delivery is     *)
(* attempted twice: every dispatched alert has exactly one attempt per     *)
(* sink.                                                                   *)
C14_SinkIsolation ==
    \A index \in 1..Len(sent) : \A sink \in Sinks :
        Cardinality({k \in 1..Len(attempts) :
                        attempts[k].index = index /\ attempts[k].sink = sink}) = 1

(* C15: a failing sink or provider call is contained in the call: in a     *)
(* closed-candle cycle every alert of the returned list is passed to       *)
(* _send_alert, in order, and a delivery is attempted for each, whichever  *)
(* sinks raise and whether or not the history query failed.                *)
C15_FailureContained ==
    AfterClosedCycle
    => /\ sent = alerts
       /\ \A index \in 1..Len(alerts) :
             \E k \in 1..Len(attempts) :
                /\ attempts[k].index = index
                /\ attempts[k].alert_type = alerts[index].alert_type

\* two alerts of one cycle, the broadcast of the first raised, the second
\* was dispatched all the same
C15_Witness ==
    /\ AfterClosedCycle
    /\ Len(alerts) >= 2
    /\ ~sink_up["websocket"]
    /\ sent = alerts
    /\ attempts[1].index = 1 /\ ~attempts[1].ok
    /\ \E k \in 1..Len(attempts) : attempts[k].index = 2

\* the analyzer was called in the step of that alert type and raised
AnalyzerFailed(call, type) ==
    /\ call.analyzer_input[type] # NotCalled
    /\ call.imbalance[type].result = AnalyzerRaises

VolumeStepResult(call, answer) ==
    IF call.route = "unconfirmed"
    THEN _check_preliminary_volume_signal(
             call.symbol, call.kline, get_historical_long_volumes(answer))
    ELSE _check_volume_alert(
             alert_cooldowns, call.symbol, call.kline,
             get_historical_long_volumes(answer), call.imbalance["volume_spike"]).alert

(* C17: a detector step whose history query failed returns something a     *)
(* caller can tell from a designed-in rejection: its result differs from   *)
(* the result of the same step on every answer it rejects (insufficient    *)
(* history, ratio below the multiplier).                                   *)
C17_FailureDistinctFromRejection ==
    [][(lastCall'.op = "process_kline_data" /\ lastCall'.history_failed)
       => \A rows \in HistoricalVolumes :
             LET rejected == VolumeStepResult(lastCall', [failed |-> FALSE, rows |-> rows])
             IN rejected = NoAlert
                => VolumeStepResult(lastCall', QueryFailed) # rejected]_vars

(* C18: processing a malformed candle event (a price or volume field that  *)
(* float() cannot read) emits no alert and leaves the run counter, the     *)
(* pending preliminary signal and the cooldown entries as they were.       *)
C18_MalformedLeavesState ==
    [][(lastCall'.op = "process_kline_data" /\ lastCall'.kline.shape # "ok")
       => /\ alerts' = << >>
          /\ consecutive_long_counters' = consecutive_long_counters
          /\ preliminary_signals' = preliminary_signals
          /\ alert_cooldowns' = alert_cooldowns]_vars

ClosedRows(stored) == {i \in 1..Len(stored) : stored[i].is_closed}

(* C20: analyze_all_imbalances is called only with the result of           *)
(* get_recent_candles(symbol, 20): at most 20 closed candles, in           *)
(* chronological order, the most recent ones stored, and never fewer than  *)
(* 15; when fewer than 15 are returned the analyzer is not called and the  *)
(* alert is produced without imbalance data.                               *)
C20_AnalyzerInputWindow ==
    lastCall.op = "process_kline_data"
    => \A type \in {"volume_spike", "consecutive_long"} :
          LET candles == lastCall.analyzer_input[type]
              stored == lastCall.imbalance[type].stored
          IN /\ candles # NotCalled
                  => /\ Len(candles) >= ImbalanceMinCandles
                     /\ Len(candles) <= ImbalanceWindow
                     /\ \A i \in 1..Len(candles) : candles[i].is_closed
                     /\ \A i \in 1..(Len(candles) - 1) :
                           candles[i].timestamp < candles[i + 1].timestamp
                     /\ \A i \in ClosedRows(stored) :
                           stored[i].timestamp <= candles[Len(candles)].timestamp
                     /\ \A i \in ClosedRows(stored) :
                           stored[i].timestamp >= candles[1].timestamp
                           => \E j \in 1..Len(candles) : candles[j] = stored[i]
             /\ (stored # << >> /\ Cardinality(ClosedRows(stored)) < ImbalanceMinCandles)
                  => /\ candles = NotCalled
                     /\ HasType(alerts, type)
                     /\ ~AlertOfType(alerts, type).has_imbalance

\* a ConsecutiveLong produced without imbalance data, the analyzer not
\* called: 14 closed candles were stored, and the open one
C20_Witness ==
    /\ AfterClosedCycle
    /\ HasType(alerts, "consecutive_long")
    /\ lastCall.imbalance["consecutive_long"].stored
         = StoredCandles(ImbalanceMinCandles - 1)
    /\ lastCall.analyzer_input["consecutive_long"] = NotCalled
    /\ ~AlertOfType(alerts, "consecutive_long").has_imbalance

DirectionMatches(kline) ==
    CASE settings.volume_type = "long" -> IsLong(kline)
      [] settings.volume_type = "short" -> ~IsLong(kline)
      [] OTHER -> TRUE

UnconfirmedCall == lastCall'.op = "process_kline_data" /\ ~lastCall'.kline.confirm

(* C22: processing an unconfirmed candle changes at most the symbol's      *)
(* pending preliminary signal: the run counters and every cooldown entry   *)
(* are as before, the pending signals of other symbols too, and the        *)
(* returned list holds no VolumeSpike, FinalVolumeSpike, ConsecutiveLong   *)
(* or Priority alert.                                                      *)
C22_UnconfirmedFrame ==
    [][UnconfirmedCall
       => /\ consecutive_long_counters' = consecutive_long_counters
          /\ alert_cooldowns' = alert_cooldowns
          /\ \A other \in Symbols \ {lastCall'.symbol} :
                Entry(preliminary_signals', other) = Entry(preliminary_signals, other)
          /\ \A type \in {"volume_spike", "final_volume_spike",
                           "consecutive_long", "priority"} :
                ~HasType(alerts', type)]_vars

\* an unconfirmed tick replaced the pending signal while the symbol had a
\* run counter and a volume cooldown entry
C22_Witness ==
    /\ lastCall.op = "process_kline_data"
    /\ ~lastCall.kline.confirm
    /\ HasType(alerts, "preliminary_volume_spike")
    /\ preliminary_signals[lastCall.symbol] = alerts[1]
    /\ lastCall.symbol \in DOMAIN consecutive_long_counters
    /\ lastCall.symbol \in DOMAIN alert_cooldowns

(* C23: for an unconfirmed candle a PreliminaryVolumeSpike is emitted if   *)
(* and only if close > open, quote volume (volume x close) >= the floor,   *)
(* at least 10 historical samples are available and quoteVolume /          *)
(* mean(historical) >= multiplier; with fewer than 10 samples the call     *)
(* returns an empty list and leaves the pending signals as they were.      *)
C23_PreliminaryIff ==
    [][UnconfirmedCall
       => LET kline == lastCall'.kline
              historical_volumes == lastCall'.historical_volumes
              due == /\ kline.shape = "ok"
                     /\ kline.close > kline.open
                     /\ kline.volume * kline.close >= settings.min_volume_usdt
                     /\ Len(historical_volumes) >= 10
                     /\ kline.volume * kline.close * Len(historical_volumes) * 10
                          >= settings.volume_multiplier * SeqSum(historical_volumes)
          IN /\ due <=> HasType(alerts', "preliminary_volume_spike")
             /\ due => /\ Len(alerts') = 1
                       /\ alerts'[1].symbol = lastCall'.symbol
                       /\ alerts'[1].current_volume_usdt = kline.volume * kline.close
             /\ ~due => /\ alerts' = << >>
                        /\ preliminary_signals' = preliminary_signals]_vars

\* a tick with exactly 10 samples and a ratio exactly at the multiplier
\* emitted a PreliminaryVolumeSpike with ratio 2.0
C23_Witness ==
    /\ lastCall.op = "process_kline_data"
    /\ ~lastCall.kline.confirm
    /\ lastCall.historical_volumes = Samples(PreliminaryMinSamples, 2750)
    /\ HasType(alerts, "preliminary_volume_spike")
    /\ alerts[1].volume_ratio = 200

(* C24: each symbol holds at most one pending preliminary signal, the      *)
(* PreliminaryVolumeSpike most recently emitted for it since its last      *)
(* closed-candle cycle: an unconfirmed tick that emits stores the emitted  *)
(* alert in place of the signal held, a tick that is rejected leaves the   *)
(* signals as they are, a closed-candle cycle clears the symbol's signal   *)
(* and nothing else changes the signals.                                   *)
C24_PendingIsLatestEmitted ==
    [][/\ \A symbol \in DOMAIN preliminary_signals' :
             /\ preliminary_signals'[symbol].alert_type = "preliminary_volume_spike"
             /\ preliminary_signals'[symbol].symbol = symbol
       /\ UnconfirmedCall
             => IF HasType(alerts', "preliminary_volume_spike")
                THEN /\ Len(alerts') = 1
                     /\ preliminary_signals'
                          = [s \in DOMAIN preliminary_signals \cup {lastCall'.symbol} |->
                               IF s = lastCall'.symbol THEN alerts'[1]
                               ELSE preliminary_signals[s]]
                ELSE preliminary_signals' = preliminary_signals
       /\ ClosedCycle
             => preliminary_signals'
                  = [s \in DOMAIN preliminary_signals \ {lastCall'.symbol} |->
                       preliminary_signals[s]]
       /\ (~UnconfirmedCall /\ ~ClosedCycle)
             => preliminary_signals' = preliminary_signals]_vars

\* a tick of a later minute was rejected and the signal emitted earlier for
\* the candle is still the one pending
C24_Witness ==
    /\ lastCall.op = "process_kline_data"
    /\ ~lastCall.kline.confirm
    /\ alerts = << >>
    /\ lastCall.symbol \in DOMAIN preliminary_signals
    /\ preliminary_signals[lastCall.symbol].timestamp < now
    /\ preliminary_signals[lastCall.symbol].start = lastCall.kline.start

\* the emission conditions of the preliminary step hold for the call
EmissionConditions(call) ==
    /\ call.kline.shape = "ok"
    /\ IsLong(call.kline)
    /\ QuoteVolume(call.kline) >= settings.min_volume_usdt
    /\ Len(call.historical_volumes) >= PreliminaryMinSamples
    /\ RatioAtLeast(QuoteVolume(call.kline), call.historical_volumes,
                    settings.volume_multiplier)

(* C25: no cooldown gates preliminary signals. Every unconfirmed tick that *)
(* satisfies the emission conditions emits a PreliminaryVolumeSpike        *)
(* stamped with the current time, whether or not a lastFired entry of the  *)
(* symbol is inside its cooldown window and whether or not a signal was    *)
(* already emitted for the same still-open candle; the emission writes no  *)
(* cooldown entry.                                                         *)
C25_PreliminaryUngated ==
    [][(UnconfirmedCall /\ EmissionConditions(lastCall'))
       => /\ HasType(alerts', "preliminary_volume_spike")
          /\ alerts'[1].timestamp = now
          /\ alerts'[1].start = lastCall'.kline.start
          /\ alert_cooldowns' = alert_cooldowns]_vars

\* a tick emitted while the VolumeSpike and ConsecutiveLong entries of the
\* symbol, written in the same minute, were inside the cooldown window
C25_Witness ==
    /\ lastCall.op = "process_kline_data"
    /\ ~lastCall.kline.confirm
    /\ HasType(alerts, "preliminary_volume_spike")
    /\ lastCall.symbol \in DOMAIN alert_cooldowns
    /\ ConsecutiveKey(lastCall.symbol) \in DOMAIN alert_cooldowns
    /\ now - alert_cooldowns[lastCall.symbol] < CooldownWindowMs
    /\ now - alert_cooldowns[ConsecutiveKey(lastCall.symbol)] < CooldownWindowMs

(* C26: the final-confirmation chain is always on. A closed-candle cycle   *)
(* of a well-formed candle for a symbol with a pending preliminary signal  *)
(* produces exactly one FinalVolumeSpike, whatever the toggles of the      *)
(* volume, consecutive and priority detectors; it carries the pending      *)
(* signal's volume_ratio, current_volume_usdt and average_volume_usdt      *)
(* unchanged and is_true_signal = (close > open) of the confirmed candle.  *)
C26_FinalAlwaysOn ==
    [][\A symbol \in Symbols :
          ( /\ ClosedCycle
            /\ lastCall'.symbol = symbol
            /\ lastCall'.kline.shape = "ok"
            /\ symbol \in DOMAIN preliminary_signals )
          => /\ CountOfType(alerts', "final_volume_spike") = 1
             /\ LET final == AlertOfType(alerts', "final_volume_spike")
                    pending == preliminary_signals[symbol]
                IN /\ final.volume_ratio = pending.volume_ratio
                   /\ final.current_volume_usdt = pending.current_volume_usdt
                   /\ final.average_volume_usdt = pending.average_volume_usdt
                   /\ final.is_true_signal
                        <=> lastCall'.kline.close > lastCall'.kline.open]_vars

\* with the volume detector switched off, a pending signal of ratio 5.5 was
\* confirmed as a true signal by a candle that closed long
C26_Witness ==
    /\ AfterClosedCycle
    /\ ~settings.volume_alerts_enabled
    /\ HasType(alerts, "final_volume_spike")
    /\ AlertOfType(alerts, "final_volume_spike").is_true_signal
    /\ AlertOfType(alerts, "final_volume_spike").volume_ratio = 550
    /\ ~HasType(alerts, "volume_spike")

\* what the volume detector makes of the call's candle and window, run on
\* the cooldown entries as they are
VolumeStep(call) ==
    _check_volume_alert(alert_cooldowns, call.symbol, call.kline,
                        call.historical_volumes, call.imbalance["volume_spike"])

(* C27: the volume detector runs in every closed-candle cycle in which it  *)
(* is enabled, whether or not the cycle produced a FinalVolumeSpike: the   *)
(* cycle holds a VolumeSpike exactly when the detector, run on the         *)
(* cooldown entries as they were before the cycle, produces one, and the   *)
(* VolumeSpike entry of the symbol after the cycle is the one the detector *)
(* leaves; a FinalVolumeSpike does not write it.                           *)
C27_VolumeRunsAfterFinal ==
    [][\A symbol \in Symbols :
          ( /\ ClosedCycle
            /\ lastCall'.symbol = symbol
            /\ settings.volume_alerts_enabled )
          => /\ HasType(alerts', "volume_spike")
                  <=> VolumeStep(lastCall').alert # NoAlert
             /\ Entry(alert_cooldowns', symbol)
                  = Entry(VolumeStep(lastCall').cooldowns, symbol)
             /\ ~HasType(alerts', "volume_spike")
                  => Entry(alert_cooldowns', symbol) = Entry(alert_cooldowns, symbol)]_vars

\* one cycle produced a FinalVolumeSpike and a VolumeSpike, and the
\* VolumeSpike wrote the entry
C27_Witness ==
    /\ AfterClosedCycle
    /\ HasType(alerts, "final_volume_spike")
    /\ HasType(alerts, "volume_spike")
    /\ alert_cooldowns[lastCall.symbol] = now
    /\ AlertOfType(alerts, "final_volume_spike").preliminary_timestamp < now

(* C28: Priority has no cooldown of its own. In every closed-candle cycle  *)
(* with the priority toggle on that produced a ConsecutiveLong and a       *)
(* VolumeSpike or FinalVolumeSpike, exactly one Priority alert is produced *)
(* in that cycle, and the cycle writes no cooldown entry besides the       *)
(* VolumeSpike and ConsecutiveLong entries of the symbol, each only with   *)
(* its own alert.                                                          *)
C28_PriorityUnthrottled ==
    [][\A symbol \in Symbols :
          ( /\ ClosedCycle
            /\ lastCall'.symbol = symbol
            /\ settings.priority_alerts_enabled
            /\ HasType(alerts', "consecutive_long")
            /\ \/ HasType(alerts', "volume_spike")
               \/ HasType(alerts', "final_volume_spike") )
          => /\ CountOfType(alerts', "priority") = 1
             /\ alerts'[Len(alerts')].alert_type = "priority"
             /\ DOMAIN alert_cooldowns'
                  \subseteq DOMAIN alert_cooldowns \cup {symbol, ConsecutiveKey(symbol)}
             /\ \A key \in DOMAIN alert_cooldowns \ {symbol, ConsecutiveKey(symbol)} :
                   Entry(alert_cooldowns', key) = Entry(alert_cooldowns, key)
             /\ ~HasType(alerts', "volume_spike")
                  => Entry(alert_cooldowns', symbol) = Entry(alert_cooldowns, symbol)]_vars

\* a Priority on the strength of a FinalVolumeSpike alone: no VolumeSpike in
\* the cycle, and the probe of recent volume alerts answered no
C28_Witness ==
    /\ AfterClosedCycle
    /\ HasType(alerts, "priority")
    /\ HasType(alerts, "final_volume_spike")
    /\ ~HasType(alerts, "volume_spike")
    /\ ~lastCall.recent_volume_alert
    /\ lastCall.symbol \notin DOMAIN alert_cooldowns

(* C29: the probe of recent volume activity that the priority step runs    *)
(* for the cycle's ConsecutiveLong alert with count c answers true if and  *)
(* only if now - lastFired[S, VolumeSpike] <= c minutes, or the timestamp  *)
(* of the symbol's preliminary signal, pending or resolved by this cycle,  *)
(* lies within the same c minutes.                                         *)
C29_RecentVolumeProbe ==
    [][\A symbol \in Symbols :
          ( /\ ClosedCycle
            /\ lastCall'.symbol = symbol
            /\ settings.priority_alerts_enabled
            /\ HasType(alerts', "consecutive_long") )
          => LET window ==
                    AlertOfType(alerts', "consecutive_long").consecutive_count * MsPerMinute
                 fired_recently ==
                    /\ symbol \in DOMAIN alert_cooldowns'
                    /\ now - alert_cooldowns'[symbol] <= window
                 signal_recent ==
                    \/ /\ symbol \in DOMAIN preliminary_signals'
                       /\ now - preliminary_signals'[symbol].timestamp <= window
                    \/ /\ symbol \in DOMAIN preliminary_signals
                       /\ now - preliminary_signals[symbol].timestamp <= window
             IN lastCall'.recent_volume_alert <=> (fired_recently \/ signal_recent)]_vars

\* the volume alert of a cycle's list: its VolumeSpike, else its
\* FinalVolumeSpike, else none
VolumeAlertOf(alert_list) ==
    IF HasType(alert_list, "volume_spike") THEN AlertOfType(alert_list, "volume_spike")
    ELSE IF HasType(alert_list, "final_volume_spike")
    THEN AlertOfType(alert_list, "final_volume_spike")
    ELSE NoAlert

(* C30: the candle snapshot of a Priority alert has the keys of the        *)
(* ConsecutiveLong alert's snapshot and of the volume alert's snapshot,    *)
(* each with the volume alert's value where the volume alert has the key   *)
(* and the ConsecutiveLong alert's value otherwise; its imbalance result   *)
(* is the volume alert's if the volume alert has one, otherwise the        *)
(* ConsecutiveLong alert's.                                                *)
C30_PriorityPayload ==
    (AfterClosedCycle /\ HasType(alerts, "priority"))
    => LET priority == AlertOfType(alerts, "priority")
           consecutive == AlertOfType(alerts, "consecutive_long")
           volume == VolumeAlertOf(alerts)
           snapshot == [open |-> lastCall.kline.open, close |-> lastCall.kline.close,
                        volume |-> lastCall.kline.volume]
           volume_keys == IF volume = NoAlert THEN {} ELSE DOMAIN volume.candle_data
       IN /\ DOMAIN priority.candle_data = DOMAIN snapshot \cup volume_keys
          /\ \A key \in DOMAIN priority.candle_data :
                priority.candle_data[key]
                  = IF key \in volume_keys THEN volume.candle_data[key] ELSE snapshot[key]
          /\ priority.imbalance_data
               = IF volume # NoAlert /\ volume.has_imbalance THEN volume.imbalance_data
                 ELSE IF consecutive.has_imbalance THEN consecutive.imbalance_data
                 ELSE NoImbalance
          /\ priority.has_imbalance <=> priority.imbalance_data # NoImbalance

\* the VolumeSpike and the ConsecutiveLong of the cycle carry different
\* imbalance results and the Priority alert has the VolumeSpike's, with the
\* alert_level of its snapshot
C30_Witness ==
    /\ AfterClosedCycle
    /\ HasType(alerts, "priority")
    /\ HasType(alerts, "volume_spike")
    /\ AlertOfType(alerts, "volume_spike").imbalance_data = "fair_value_gap"
    /\ AlertOfType(alerts, "consecutive_long").imbalance_data = "order_block"
    /\ AlertOfType(alerts, "priority").imbalance_data = "fair_value_gap"
    /\ "alert_level" \in DOMAIN AlertOfType(alerts, "priority").candle_data

(* C31: an alert record is not modified after the detector step that       *)
(* created it. After a closed-candle cycle the ConsecutiveLong alert of    *)
(* the returned list still has the candle snapshot its detector built:     *)
(* open, close and volume of the candle, and no other key.                 *)
C31_AlertsImmutable ==
    (AfterClosedCycle /\ HasType(alerts, "consecutive_long"))
    => AlertOfType(alerts, "consecutive_long").candle_data
         = CandleData(lastCall.kline, FALSE)

\* the alert_cooldowns key of a gated kind for a symbol
CooldownKey(symbol, type) ==
    IF type = "volume_spike" THEN symbol ELSE ConsecutiveKey(symbol)

GatedKinds == {"volume_spike", "consecutive_long"}

(* C32: in a closed-candle cycle for S the cooldown entry of S for a gated *)
(* kind (VolumeSpike, ConsecutiveLong) changes if and only if the cycle    *)
(* produces an alert of that kind, and then it holds that alert's          *)
(* timestamp; a cycle that produces no alert of the kind, whether by       *)
(* rejection or by a failed query, leaves the entry as it was.             *)
C32_LastFiredIffAlert ==
    [][ClosedCycle =>
         \A type \in GatedKinds :
            LET key == CooldownKey(lastCall'.symbol, type)
            IN /\ Entry(alert_cooldowns', key) # Entry(alert_cooldowns, key)
                    <=> HasType(alerts', type)
               /\ HasType(alerts', type)
                    => alert_cooldowns'[key] = AlertOfType(alerts', type).timestamp
      ]_vars

\* a cycle later than the start that produced both gated alerts, over
\* entries written by an earlier cycle
C32_Witness ==
    /\ AfterClosedCycle
    /\ now > StartMs
    /\ \A type \in GatedKinds :
          /\ HasType(alerts, type)
          /\ alert_cooldowns[CooldownKey(lastCall.symbol, type)] = now
    /\ Len(closed[lastCall.symbol]) = MaxCandles

\* cooldown_cutoff_ms of a cleanup at the current time
CooldownCutoffMs == now - CleanupHorizonMinutes * MsPerMinute

(* C33: cleanup_old_data removes exactly the cooldown entries whose        *)
(* timestamp is before now minus one hour; every other cooldown entry      *)
(* keeps its value, and the run counters and the pending preliminary       *)
(* signals are as before the call.                                         *)
C33_CleanupRemovesExactlyStale ==
    [][lastCall'.op = "cleanup_old_data" =>
         /\ DOMAIN alert_cooldowns'
              = {key \in DOMAIN alert_cooldowns :
                    ~(alert_cooldowns[key] < CooldownCutoffMs)}
         /\ \A key \in DOMAIN alert_cooldowns' :
               alert_cooldowns'[key] = alert_cooldowns[key]
         /\ consecutive_long_counters' = consecutive_long_counters
         /\ preliminary_signals' = preliminary_signals
      ]_vars

\* after a cleanup an entry exactly one hour old is still held, next to a
\* run counter and a pending signal
C33_Witness ==
    /\ lastCall.op = "cleanup_old_data"
    /\ \E key \in DOMAIN alert_cooldowns : alert_cooldowns[key] = CooldownCutoffMs
    /\ \E symbol \in DOMAIN consecutive_long_counters :
          consecutive_long_counters[symbol] > 0
    /\ preliminary_signals # EmptyDict

----------------------------------------------------------------------------
(* The manager under other .env files.                                     *)

\* an ALERT_GROUPING_MINUTES longer than the horizon of cleanup_old_data
LongCooldownMinutes == 2 * CleanupHorizonMinutes

\* the .env file as written by create_env_file, one with a long cooldown
\* window and one with the imbalance analysis switched off
EnvFiles ==
    {EnvFile,
     [EnvFile EXCEPT !.ALERT_GROUPING_MINUTES = LongCooldownMinutes],
     [EnvFile EXCEPT !.IMBALANCE_ENABLED = FALSE]}

\* self.settings as __init__ loads it from a .env file
SettingsFrom(env) ==
    [setting_key \in {LowerKey[key] : key \in setting_keys} |->
        env[UpperKey(setting_key)]]

EnvInit ==
    /\ now = StartMs
    /\ \E env \in EnvFiles : settings = SettingsFrom(env)
    /\ alert_cooldowns = EmptyDict
    /\ consecutive_long_counters = EmptyDict
    /\ preliminary_signals = EmptyDict
    /\ has_is_candle_closed = FALSE
    /\ trading_pairs = {"BTCUSDT"}
    /\ bucket = [s \in Symbols |-> 0]
    /\ closed = [s \in Symbols |-> << >>]
    /\ alerts = << >>
    /\ sent = << >>
    /\ lastCall = Idle
    /\ sink_up = [s \in Sinks |-> TRUE]
    /\ attempts = << >>
    /\ running = << >>

\* the stream of one pair and the hourly cleanup, the settings left as loaded
EnvNext == Kline \/ Tick \/ Cleanup \/ Return

EnvSpec == EnvInit /\ [][EnvNext]_vars

(* C34: cleanup is not a correctness reset. Whatever cooldown window is    *)
(* configured, an entry that cleanup_old_data removes is one whose         *)
(* cooldown has elapsed: at least the cooldown window has passed since the *)
(* timestamp it holds, so that its removal cannot let an alert of its kind *)
(* fire inside the window.                                                 *)
C34_CleanupOnlyElapsed ==
    [][lastCall'.op = "cleanup_old_data" =>
         \A key \in (DOMAIN alert_cooldowns) \ (DOMAIN alert_cooldowns') :
            now - alert_cooldowns[key] >= CooldownWindowMs
      ]_vars

(* C40: with the imbalance feature disabled (imbalance_enabled false) no   *)
(* alert of a closed-candle cycle carries an imbalance result, and the     *)
(* imbalance analyzer is not invoked in the cycle, neither for the         *)
(* VolumeSpike nor for the ConsecutiveLong.                                *)
C40_ImbalanceDisabled ==
    (AfterClosedCycle /\ ~settings.imbalance_enabled)
    => /\ \A i \in 1..Len(alerts) :
             ~alerts[i].has_imbalance /\ alerts[i].imbalance_data = NoImbalance
       /\ lastCall.analyzer_input.volume_spike = NotCalled
       /\ lastCall.analyzer_input.consecutive_long = NotCalled

\* the consecutive detector run on the counters the cycle has updated
ConsecutiveStep(call) ==
    _check_consecutive_long_alert(
        alert_cooldowns,
        _update_consecutive_long_counter(consecutive_long_counters,
                                         call.symbol, call.kline),
        call.symbol, call.kline, call.imbalance["consecutive_long"])

C39_OmittedKeysKept ==
    [][lastCall'.op = "update_settings" =>
         \E new_settings \in NewSettings :
            \A setting_key \in DOMAIN settings :
               settings'[setting_key]
                 = IF UpperKey(setting_key) \in DOMAIN new_settings
                   THEN new_settings[UpperKey(setting_key)]
                   ELSE settings[setting_key]
      ]_vars

----------------------------------------------------------------------------
(* The settings endpoint. A request carries sections, each a dict that the *)
(* endpoint passes to update_settings; the calls follow each other without *)
(* an await between them.                                                  *)

\* the sections the endpoint hands to the alert manager, in its order
RequestSections == << "volume_analyzer", "alerts", "imbalance" >>

\* the request bodies: one section with two keys, and two sections each
Requests ==
    {[alerts |-> [VOLUME_ALERTS_ENABLED |-> FALSE, PRIORITY_ALERTS_ENABLED |-> FALSE]],
     [volume_analyzer |-> [CONSECUTIVE_LONG_COUNT |-> RunThreshold + 1],
      alerts |-> [CONSECUTIVE_ALERTS_ENABLED |-> FALSE]],
     [alerts |-> [VOLUME_ALERTS_ENABLED |-> FALSE],
      imbalance |-> [IMBALANCE_ENABLED |-> FALSE]]}

\* the settings after the calls for the first k sections
RECURSIVE ApplySections(_, _, _)
ApplySections(current, request, k) ==
    IF k = 0 THEN current
    ELSE LET before == ApplySections(current, request, k - 1)
         IN IF RequestSections[k] \in DOMAIN request
            THEN update_settings(before, request[RequestSections[k]])
            ELSE before

\* mutant: the endpoint gives way after its first call
ApplyRequestFirstCall(current, request) ==
    ApplySections(current, request, 1)

ApplyRequest(current, request) ==
    ApplySections(current, request, Len(RequestSections))

SettingsRequest ==
    /\ lastCall = Idle
    /\ \E request \in Requests :
          /\ settings' = ApplyRequest(settings, request)
          /\ lastCall' = [op |-> "settings_request", request |-> request]
    /\ NoCallResult
    /\ UNCHANGED << now, alert_cooldowns, consecutive_long_counters,
                    preliminary_signals, has_is_candle_closed, trading_pairs,
                    bucket, closed >>

\* the stream of one pair while settings requests arrive
SettingsNext == Kline \/ Return \/ SettingsRequest

SettingsSpec == Init /\ [][SettingsNext]_vars

\* what one update_settings call of the endpoint leaves, for a section the
\* request may or may not have
AfterSection(current, request, section) ==
    IF section \in DOMAIN request
    THEN update_settings(current, request[section]) ELSE current

----------------------------------------------------------------------------
(* The runs of process_kline_data between their awaits. Here nothing       *)
(* limits which runs are in flight together, and each action is the        *)
(* segment a run executes from one await to the next. The .env file has    *)
(* VOLUME_ALERTS_ENABLED=False, so a closed-candle cycle goes from the     *)
(* final confirmation straight to the consecutive detector; the klines are *)
(* well-formed.                                                            *)

InterleaveInit ==
    /\ now = StartMs
    /\ settings = SettingsFrom([EnvFile EXCEPT !.VOLUME_ALERTS_ENABLED = FALSE])
    /\ alert_cooldowns = EmptyDict
    /\ consecutive_long_counters = EmptyDict
    /\ preliminary_signals = EmptyDict
    /\ has_is_candle_closed = FALSE
    /\ trading_pairs = {"BTCUSDT"}
    /\ bucket = [s \in Symbols |-> 0]
    /\ closed = [s \in Symbols |-> << >>]
    /\ alerts = << >>
    /\ sent = << >>
    /\ lastCall = Idle
    /\ sink_up = [s \in Sinks |-> TRUE]
    /\ attempts = << >>
    /\ running = << >>

\* an unconfirmed tick that passes the checks made before the history
\* query is suspended at the query
TickBegin ==
    /\ Len(running) < MaxInFlight
    /\ \E symbol \in trading_pairs :
         \E kline \in KlinesOf(bucket[symbol]) :
            /\ ~kline.confirm
            /\ ReadsHistory(kline, "unconfirmed")
            /\ running' = Append(running,
                                 [symbol |-> symbol, confirm |-> FALSE, kline |-> kline,
                                  at |-> "history", alerts |-> << >>,
                                  timestamp |-> None, consecutive_count |-> None])
    /\ UNCHANGED << now, settings, alert_cooldowns, consecutive_long_counters,
                    preliminary_signals, has_is_candle_closed, trading_pairs,
                    bucket, closed, alerts, sent, lastCall, sink_up, attempts >>

\* the query answers: the rest of _check_preliminary_volume_signal, and
\* process_kline_data stores the alert and returns
TickResume ==
    /\ \E i \in 1..Len(running) :
         \E answer \in HistoryAnswers :
            LET run == running[i]
                preliminary_alert ==
                    _check_preliminary_volume_signal(
                        run.symbol, run.kline, get_historical_long_volumes(answer))
            IN /\ ~run.confirm
               /\ run.at = "history"
               /\ preliminary_signals' =
                      IF preliminary_alert # NoAlert
                      THEN DictPut(preliminary_signals, run.symbol, preliminary_alert)
                      ELSE preliminary_signals
               /\ alerts' = ListOf(preliminary_alert)
               /\ running' = Without(running, i)
    /\ UNCHANGED << now, settings, alert_cooldowns, consecutive_long_counters,
                    has_is_candle_closed, trading_pairs, bucket, closed,
                    sent, lastCall, sink_up, attempts >>

\* a confirmed candle: the counter, the final confirmation and the
\* consecutive detector up to its await of _analyze_imbalance; with a
\* candle the detector rejects the run returns what it has
ClosedBegin ==
    /\ Len(running) < MaxInFlight
    /\ Delivered < MaxCandles
    /\ \E symbol \in trading_pairs :
         \E kline \in KlinesOf(bucket[symbol]) :
            LET counters ==
                    _update_consecutive_long_counter(consecutive_long_counters,
                                                     symbol, kline)
                final_alert ==
                    _check_final_volume_signal(preliminary_signals, symbol, kline)
                passes ==
                    /\ settings.consecutive_alerts_enabled
                    /\ _check_consecutive_long_alert(alert_cooldowns, counters, symbol,
                                                     kline, NoAnswer).alert # NoAlert
            IN /\ kline.confirm
               /\ kline.shape = "ok"
               /\ consecutive_long_counters' = counters
               /\ preliminary_signals' = ClearPending(preliminary_signals, symbol)
               /\ bucket' = [bucket EXCEPT ![symbol] = @ + 1]
               /\ closed' = [closed EXCEPT ![symbol] = Append(@, IsLong(kline))]
               /\ running' =
                     IF passes
                     THEN Append(running,
                                 [symbol |-> symbol, confirm |-> TRUE, kline |-> kline,
                                  at |-> "imbalance", alerts |-> ListOf(final_alert),
                                  timestamp |-> _get_current_timestamp_ms,
                                  consecutive_count |-> DictGet(counters, symbol, 0)])
                     ELSE running
               /\ alerts' = IF passes THEN alerts ELSE ListOf(final_alert)
    /\ UNCHANGED << now, settings, alert_cooldowns, has_is_candle_closed,
                    trading_pairs, sent, lastCall, sink_up, attempts >>

\* the ConsecutiveLong alert a resumed run builds from what it read before
\* the await
ResumedConsecutiveAlert(run, outcome) ==
    [_check_consecutive_long_alert(
         EmptyDict, DictPut(EmptyDict, run.symbol, run.consecutive_count),
         run.symbol, run.kline, outcome).alert
     EXCEPT !.timestamp = run.timestamp]

\* _analyze_imbalance answers: the alert is built, the cooldown entry is
\* written, the priority step follows and the run returns its alerts
ConsecutiveResume ==
    /\ \E i \in 1..Len(running) :
         \E outcome \in ImbalanceOutcomes :
            LET run == running[i]
                consecutive_alert == ResumedConsecutiveAlert(run, outcome)
                cooldowns == DictPut(alert_cooldowns, ConsecutiveKey(run.symbol),
                                     run.timestamp)
                detected == run.alerts \o << consecutive_alert >>
                priority ==
                    IF settings.priority_alerts_enabled
                    THEN _check_priority_signal(cooldowns, preliminary_signals,
                                                run.symbol, detected)
                    ELSE [alert |-> NoAlert, alerts |-> detected,
                          recent_volume_alert |-> FALSE]
            IN /\ run.confirm
               /\ run.at = "imbalance"
               /\ alert_cooldowns' = cooldowns
               /\ alerts' = priority.alerts \o ListOf(priority.alert)
               /\ running' = Without(running, i)
    /\ UNCHANGED << now, settings, consecutive_long_counters, preliminary_signals,
                    has_is_candle_closed, trading_pairs, bucket, closed,
                    sent, lastCall, sink_up, attempts >>

\* a minute passes while runs are suspended
Elapse ==
    /\ running # << >>
    /\ now + MsPerMinute \in Instants
    /\ now' = now + MsPerMinute
    /\ UNCHANGED << settings, alert_cooldowns, consecutive_long_counters,
                    preliminary_signals, has_is_candle_closed, trading_pairs,
                    bucket, closed, alerts, sent, lastCall, sink_up, attempts,
                    running >>

InterleaveNext ==
    TickBegin \/ TickResume \/ ClosedBegin \/ ConsecutiveResume \/ Elapse

InterleaveSpec == InterleaveInit /\ [][InterleaveNext]_vars

(* C35: however two runs for the same symbol interleave at their awaits,   *)
(* no two ConsecutiveLong alerts of the symbol are produced less than the  *)
(* cooldown window apart: when a run writes the cooldown entry for the     *)
(* alert it produces, the entry it replaces is absent or at least the      *)
(* window older than the alert, because nothing ran between the run's      *)
(* cooldown check and its write.                                           *)
C35_CheckAndWriteTogether ==
    [][\A i \in 1..Len(running) :
          ( /\ running[i].at = "imbalance"
            /\ running' = Without(running, i) )
          => LET last_alert_timestamp ==
                     DictGet(alert_cooldowns, ConsecutiveKey(running[i].symbol), None)
             IN \/ last_alert_timestamp = None
                \/ running[i].timestamp - last_alert_timestamp >= CooldownWindowMs
      ]_vars

(* C36: a run of an unconfirmed tick that was suspended on the history     *)
(* query while the confirmed candle of its symbol was processed does not   *)
(* set a pending signal when it resumes: a pending preliminary signal      *)
(* always belongs to the candle of its symbol that is still open.          *)
C36_NoStalePending ==
    \A symbol \in DOMAIN preliminary_signals :
       preliminary_signals[symbol].start = bucket[symbol]

====
